---- MODULE Spec2Model ----
(***************************************************************************)
(* Model of the Telegram channel scraper: the metric functions of          *)
(* scraper.py / parser.py and the database-integrated scrape run           *)
(* (scrape_channel, scrape_all_active_channels, scrape_specific_channels). *)
(***************************************************************************)
EXTENDS Integers, Sequences, FiniteSets, TLC

(***************************************************************************)
(* Python values.  An optional value is a sequence of length 0 or 1:       *)
(* None is <<>> and the value x is <<x>>.                                  *)
(***************************************************************************)
None == <<>>

Some(x) == <<x>>

\* Python `x or 0` on an optional integer.
OrZero(x) == IF x = None THEN 0 ELSE x[1]

\* Python truthiness of an optional integer (None and 0 are falsy).
Truthy(x) == x /= None /\ x[1] /= 0

(***************************************************************************)
(* Bounds of the metric-function inputs.                                   *)
(***************************************************************************)
MaxReactions == 2

ReactionKinds ==
    {"None", "ReactionEmoji", "ReactionCustomEmoji", "ReactionPaid", "ReactionEmpty"}

ReactionCounts == {None, Some(20), Some(50)}

ReactionEntries == [reaction : ReactionKinds, count : ReactionCounts]

RECURSIVE SeqsUpTo(_, _)
SeqsUpTo(S, n) ==
    IF n = 0 THEN {<<>>}
    ELSE LET shorter == SeqsUpTo(S, n - 1)
         IN  shorter \cup {Append(s, x) : s \in {t \in shorter : Len(t) = n - 1}, x \in S}

ViewValues == {None, Some(-1), Some(0), Some(3), Some(1000)}

ForwardValues == {None, Some(0), Some(5)}

ReplyValues == {None, Some(0), Some(3)}

\* The messages the metric functions are applied to.
MetricMessages ==
    [views : ViewValues, forwards : ForwardValues, replies : ReplyValues,
     reactions : {None} \cup {Some(s) : s \in SeqsUpTo(ReactionEntries, MaxReactions)}]

(***************************************************************************)
(* scraper.get_total_reactions: the loop over message.reactions.results.   *)
(* message.reactions is None or Some(results).                             *)
(***************************************************************************)
RECURSIVE scraper_reactions_loop(_, _, _)
scraper_reactions_loop(results, i, total_free) ==
    IF i > Len(results) THEN total_free
    ELSE LET reaction == results[i].reaction
             count    == OrZero(results[i].count)
         IN  IF reaction = "None"
             THEN scraper_reactions_loop(results, i + 1, total_free + count)
             ELSE IF reaction \in {"ReactionPaid", "ReactionCustomEmoji"}
                  THEN scraper_reactions_loop(results, i + 1, total_free)
                  ELSE scraper_reactions_loop(results, i + 1, total_free + count)

\* A plausible slip: only ReactionPaid is skipped, custom emoji count as free.
scraper_get_total_reactions_custom_free(reactions) ==
    IF reactions = None \/ reactions[1] = <<>> THEN 0
    ELSE LET results == reactions[1]
             F[i \in 0..Len(results)] ==
                 IF i = 0 THEN 0
                 ELSE F[i - 1] + (IF results[i].reaction = "ReactionPaid"
                                  THEN 0 ELSE OrZero(results[i].count))
         IN  F[Len(results)]

scraper_get_total_reactions(reactions) ==
    IF reactions = None THEN 0
    ELSE IF reactions[1] = <<>> THEN 0
         ELSE scraper_reactions_loop(reactions[1], 1, 0)

(***************************************************************************)
(* parser.get_total_reactions: the same loop, which also accumulates the   *)
(* paid total in a local variable; only the free total is returned.        *)
(***************************************************************************)
RECURSIVE parser_reactions_loop(_, _, _)
parser_reactions_loop(results, i, acc) ==
    IF i > Len(results) THEN acc
    ELSE LET reaction == results[i].reaction
             count    == OrZero(results[i].count)
         IN  IF reaction = "None"
             THEN parser_reactions_loop(results, i + 1,
                      [acc EXCEPT !.total_free = @ + count])
             ELSE IF reaction \in {"ReactionPaid", "ReactionCustomEmoji"}
                  THEN parser_reactions_loop(results, i + 1,
                           [acc EXCEPT !.total_paid = @ + count])
                  ELSE parser_reactions_loop(results, i + 1,
                           [acc EXCEPT !.total_free = @ + count])

\* The locals total_free / total_paid of parser.get_total_reactions at its return.
parser_reaction_totals(reactions) ==
    IF reactions = None THEN [total_free |-> 0, total_paid |-> 0]
    ELSE IF reactions[1] = <<>> THEN [total_free |-> 0, total_paid |-> 0]
         ELSE parser_reactions_loop(reactions[1], 1, [total_free |-> 0, total_paid |-> 0])

parser_get_total_reactions(reactions) == parser_reaction_totals(reactions).total_free

(***************************************************************************)
(* calculate_engagement (scraper.py and parser.py have the same body).     *)
(* engagement_rate is kept in units of 0.0001 (round(rate, 4) * 10^4);     *)
(* Python's round is round-half-to-even.                                   *)
(***************************************************************************)
RoundHalfEven(num, den) ==
    LET q == num \div den
        r == num % den
    IN  IF 2 * r < den THEN q
        ELSE IF 2 * r > den THEN q + 1
             ELSE IF q % 2 = 0 THEN q ELSE q + 1

\* A plausible slip: `message.views or 1` to dodge the division by zero.
calculate_engagement_views_or_one(message, total_reactions) ==
    LET views    == IF Truthy(message.views) THEN message.views[1] ELSE 1
        forwards == OrZero(message.forwards)
        replies  == OrZero(message.replies)
        engagement_count == total_reactions + forwards + replies
    IN  [engagement_count |-> engagement_count,
         engagement_rate  |-> IF views > 0
                              THEN RoundHalfEven(engagement_count * 1000000, views)
                              ELSE 0]

calculate_engagement(message, total_reactions) ==
    LET views    == OrZero(message.views)
        forwards == OrZero(message.forwards)
        replies  == OrZero(message.replies)
        engagement_count == total_reactions + forwards + replies
    IN  [engagement_count |-> engagement_count,
         engagement_rate  |-> IF views > 0
                              THEN RoundHalfEven(engagement_count * 1000000, views)
                              ELSE 0]

\* parser.calculate_engagement, the copy export_channel uses.
parser_calculate_engagement(message, total_reactions) ==
    LET views    == OrZero(message.views)
        forwards == OrZero(message.forwards)
        replies  == OrZero(message.replies)
        engagement_count == total_reactions + forwards + replies
        engagement_rate  == IF views > 0
                            THEN RoundHalfEven(engagement_count * 1000000, views)
                            ELSE 0
    IN  [engagement_count |-> engagement_count, engagement_rate |-> engagement_rate]

(***************************************************************************)
(* parser.get_reaction_breakdown: the reaction part of the breakdown dict. *)
(* Entries without a reaction object are skipped; ReactionEmoji is "free", *)
(* ReactionCustomEmoji is "paid", every other type is "other" and enters   *)
(* neither total.  The entry list is then sorted by count, highest first   *)
(* (list.sort is stable, also with reverse=True).                          *)
(***************************************************************************)
RECURSIVE breakdown_loop(_, _, _)
breakdown_loop(results, i, acc) ==
    IF i > Len(results) THEN acc
    ELSE LET reaction == results[i].reaction
             count    == OrZero(results[i].count)
         IN  IF reaction = "None"
             THEN breakdown_loop(results, i + 1, acc)
             ELSE IF reaction = "ReactionEmoji"
                  THEN breakdown_loop(results, i + 1,
                           [acc EXCEPT !.reactions_breakdown =
                                           Append(@, [count |-> count, type |-> "free",
                                                      reaction_type |-> reaction]),
                                       !.total_free_reactions = @ + count])
                  ELSE IF reaction = "ReactionCustomEmoji"
                       THEN breakdown_loop(results, i + 1,
                                [acc EXCEPT !.reactions_breakdown =
                                                Append(@, [count |-> count, type |-> "paid",
                                                           reaction_type |-> reaction]),
                                            !.total_paid_reactions = @ + count])
                       ELSE breakdown_loop(results, i + 1,
                                [acc EXCEPT !.reactions_breakdown =
                                                Append(@, [count |-> count, type |-> "other",
                                                           reaction_type |-> reaction])])

\* list.sort(key=count, reverse=True): stable insertion of x behind every entry
\* whose count is at least x's.
RECURSIVE InsertByCountDesc(_, _)
InsertByCountDesc(sorted, x) ==
    IF sorted = <<>> THEN <<x>>
    ELSE IF Head(sorted).count >= x.count
         THEN <<Head(sorted)>> \o InsertByCountDesc(Tail(sorted), x)
         ELSE <<x>> \o sorted

RECURSIVE SortByCountDesc(_)
SortByCountDesc(entries) ==
    IF entries = <<>> THEN <<>>
    ELSE InsertByCountDesc(SortByCountDesc(SubSeq(entries, 1, Len(entries) - 1)),
                           entries[Len(entries)])

get_reaction_breakdown(reactions) ==
    IF reactions = None \/ reactions[1] = <<>>
    THEN [reactions_breakdown |-> <<>>, has_totals |-> FALSE,
          total_free_reactions |-> 0, total_paid_reactions |-> 0,
          total_all_reactions |-> 0]
    ELSE LET acc == breakdown_loop(reactions[1], 1,
                        [reactions_breakdown |-> <<>>, total_free_reactions |-> 0,
                         total_paid_reactions |-> 0])
         IN  [reactions_breakdown |-> SortByCountDesc(acc.reactions_breakdown),
              has_totals |-> TRUE,
              total_free_reactions |-> acc.total_free_reactions,
              total_paid_reactions |-> acc.total_paid_reactions,
              total_all_reactions |->
                  acc.total_free_reactions + acc.total_paid_reactions]

(***************************************************************************)
(* The scrape run.  Bounds and the small universe of channels and posts.   *)
(***************************************************************************)
\* Primary keys of the rows of telegram_channels.
ChanIds == {1, 2}

\* Telegram message ids a channel can show.
MsgIds == {1, 2}

\* `limit` of client.iter_messages (200 in the code), scaled down.
Limit == 2

\* Number of scrape requests served; `now` is a logical clock that ticks once
\* per request.
MaxRuns == 2

\* The Telegram id (telegram_channels.channel_id) of the channel seeded with
\* primary key c.
ExternalId(c) == 100 + c

\* Request handlers; each has its own AsyncSession (get_db).
Sessions == {1, 2}

\* What the source returns for one post: two snapshots of its content.
ProfileA ==
    [date |-> 1, text |-> Some(<<"a", "b", "c">>), views |-> Some(100),
     forwards |-> None, replies |-> None, reactions |-> None]

ProfileB ==
    [date |-> 2, text |-> Some(<<"a", "b">>), views |-> Some(150),
     forwards |-> Some(5), replies |-> Some(3),
     reactions |-> Some(<<[reaction |-> "ReactionEmoji", count |-> Some(20)],
                          [reaction |-> "ReactionPaid", count |-> Some(50)]>>)]

Profiles == {ProfileA, ProfileB}

Message(i, p) ==
    [id |-> i, date |-> p.date, text |-> p.text, views |-> p.views,
     forwards |-> p.forwards, replies |-> p.replies, reactions |-> p.reactions]

\* What client.iter_messages can yield for a channel: channel 1 shows two posts
\* whose content changes, every other channel one post that does not change.
SourceMessages(c) ==
    IF c = 1 THEN {Message(i, p) : i \in MsgIds, p \in Profiles}
    ELSE {Message(1, ProfileA)}

VARIABLES
    telegram_channels,  \* table: set of channel rows
    telegram_messages,  \* table: set of committed message rows
    next_id,            \* the serial of telegram_messages.id
    next_channel_pk,    \* the serial of telegram_channels.id
    now,                \* logical clock
    pc,                 \* per session: where its scrape run stands
    channels,           \* per session: the list `channels` of the run
    idx,                \* per session: position of the `for channel` loop
    batch,              \* per session: messages consumed by the current scrape_channel
    messages_scraped,   \* per session: local of scrape_channel
    messages_updated,   \* per session: local of scrape_channel
    session,            \* per session: pending state of the AsyncSession
    total_scraped,      \* per session: local of the run
    total_updated,      \* per session: local of the run
    errors,             \* per session: local of the run
    result,             \* per session: outcome of the last scrape_channel call
    summary,            \* per session: outcome of the last run
    start_rows,         \* per session: committed rows of the channel at call start
    start_channel,      \* per session: committed channel row at call start
    scrape_request,     \* per session: the ScrapeRequest body of the run's request
    m_message,          \* metric functions: the input message
    m_result,           \* metric functions: what was computed from it
    s_input,            \* statistics and ranking: the exported channel data
    s_result,           \* statistics and ranking: what was computed from it
    a_result            \* channel endpoints: the last request and its response

scrape_vars ==
    <<telegram_channels, telegram_messages, next_id, next_channel_pk, now, pc,
      channels, idx, batch,
      messages_scraped, messages_updated, session, total_scraped, total_updated,
      errors, result, summary, start_rows, start_channel, scrape_request>>

metric_vars == <<m_message, m_result>>

stats_vars == <<s_input, s_result>>

admin_vars == <<a_result>>

\* What a scrape run leaves alone.
other_vars == <<metric_vars, stats_vars, admin_vars>>

vars == <<scrape_vars, other_vars>>

run_locals == <<channels, idx, total_scraped, total_updated, errors, scrape_request>>

call_locals == <<batch, messages_scraped, messages_updated, start_rows, start_channel>>

tables == <<telegram_channels, telegram_messages, next_id, next_channel_pk>>

(***************************************************************************)
(* Tables, rows and the session.                                           *)
(***************************************************************************)

RowsIn(messages, c) == {m \in messages : m.channel_id = c}

RowsOf(c) == RowsIn(telegram_messages, c)

ChannelRowIn(chans, c) == CHOOSE ch \in chans : ch.id = c

ChannelRow(c) == ChannelRowIn(telegram_channels, c)

ChannelExists(c) == \E ch \in telegram_channels : ch.id = c

\* The committed row of channel c, if there is one.
ChannelState(c) == IF ChannelExists(c) THEN Some(ChannelRow(c)) ELSE None

\* in_transaction: a statement has run since the last commit (the session begins
\* its transaction at the first statement).
EmptySession ==
    [new |-> <<>>, dirty |-> {}, last_scraped_at |-> None, in_transaction |-> FALSE]

NoResult ==
    [kind |-> "none", success |-> FALSE, messages_scraped |-> 0,
     messages_updated |-> 0, error |-> "none"]

NoSummary ==
    [kind |-> "none", success |-> FALSE, channels_processed |-> 0,
     total_messages_scraped |-> 0, total_messages_updated |-> 0, errors |-> <<>>]

\* The exception leaves the scrape function: nothing is returned.
RaisedSummary == [NoSummary EXCEPT !.kind = "raised"]

\* select(TelegramMessage).where(channel_id == channel.id, message_id == message.id)
Lookup(c, mid) == {m \in telegram_messages : m.channel_id = c /\ m.message_id = mid}

\* The values scrape_channel computes from one fetched message.
Metrics(message) ==
    LET total_reactions == scraper_get_total_reactions(message.reactions)
        engagement      == calculate_engagement(message, total_reactions)
    IN  [views |-> message.views,
         forwards |-> message.forwards,
         replies |-> message.replies,
         total_reactions |-> total_reactions,
         engagement_count |-> engagement.engagement_count,
         engagement_rate |-> engagement.engagement_rate,
         post_length |-> IF message.text = None \/ message.text[1] = <<>>
                         THEN 0 ELSE Len(message.text[1])]

\* Slips of the update branch: the views are added up instead of replaced; the
\* text is refreshed too; engagement_count is left as stored.
UpdateExistingAccumulate(existing, message) ==
    LET v == Metrics(message)
    IN  [existing EXCEPT !.views = Some(OrZero(@) + OrZero(v.views)),
                         !.forwards = v.forwards,
                         !.replies = v.replies,
                         !.total_reactions = v.total_reactions,
                         !.engagement_count = v.engagement_count,
                         !.engagement_rate = v.engagement_rate,
                         !.post_length = v.post_length]

UpdateExistingWithText(existing, message) ==
    LET v == Metrics(message)
    IN  [existing EXCEPT !.text = message.text,
                         !.views = v.views,
                         !.forwards = v.forwards,
                         !.replies = v.replies,
                         !.total_reactions = v.total_reactions,
                         !.engagement_count = v.engagement_count,
                         !.engagement_rate = v.engagement_rate,
                         !.post_length = v.post_length]

UpdateExistingStaleEngagement(existing, message) ==
    LET v == Metrics(message)
    IN  [existing EXCEPT !.views = v.views,
                         !.forwards = v.forwards,
                         !.replies = v.replies,
                         !.total_reactions = v.total_reactions,
                         !.engagement_rate = v.engagement_rate,
                         !.post_length = v.post_length]

\* The attribute assignments of the `if existing_message:` branch.
UpdateExisting(existing, message) ==
    LET v == Metrics(message)
    IN  [existing EXCEPT !.views = v.views,
                         !.forwards = v.forwards,
                         !.replies = v.replies,
                         !.total_reactions = v.total_reactions,
                         !.engagement_count = v.engagement_count,
                         !.engagement_rate = v.engagement_rate,
                         !.post_length = v.post_length]

\* TelegramMessage(...) of the else branch; id and created_at are set by the
\* INSERT (serial, default=utcnow).  An explicit None is stored as NULL.
NewMessage(c, message) ==
    LET v == Metrics(message)
    IN  [id |-> 0, channel_id |-> c, message_id |-> message.id,
         date |-> message.date, text |-> message.text,
         views |-> v.views, forwards |-> v.forwards, replies |-> v.replies,
         total_reactions |-> v.total_reactions,
         engagement_count |-> v.engagement_count,
         engagement_rate |-> v.engagement_rate,
         post_length |-> v.post_length, created_at |-> 0]

\* The index declared without unique=True.
UniqueOkNotEnforced(rows) == TRUE

\* Index('idx_channel_message', 'channel_id', 'message_id', unique=True)
UniqueOk(rows) ==
    \A a, b \in rows :
        (a.channel_id = b.channel_id /\ a.message_id = b.message_id) => a.id = b.id

\* The object the session holds for a stored row: its pending attribute values
\* when it was modified in this session, the stored row otherwise.
Loaded(s, row) ==
    IF \E d \in s.dirty : d.id = row.id
    THEN CHOOSE d \in s.dirty : d.id = row.id
    ELSE row

\* The flush of session.commit(): UPDATE by primary key of the rows whose objects
\* were modified, INSERT of the new ones (serial id, created_at default utcnow).
FlushRows(s) ==
    LET updated  == {Loaded(s, m) : m \in telegram_messages}
        inserted == {[s.new[i] EXCEPT !.id = next_id + i - 1, !.created_at = now] :
                        i \in 1..Len(s.new)}
    IN  updated \cup inserted

\* channel.last_scraped_at = datetime.now(timezone.utc), written by the same flush
\* (one UPDATE of the changed column by primary key; updated_at has onupdate).
FlushChannels(s, c) ==
    {IF ch.id = c /\ s.last_scraped_at /= None
     THEN [ch EXCEPT !.last_scraped_at = s.last_scraped_at, !.updated_at = now]
     ELSE ch : ch \in telegram_channels}

\* All orders in which a SELECT without ORDER BY may return the rows S.
RECURSIVE Orders(_)
Orders(S) ==
    IF S = {} THEN {<<>>}
    ELSE UNION {{<<x>> \o rest : rest \in Orders(S \ {x})} : x \in S}

\* get_active_channels: select(TelegramChannel).where(is_active == True)
get_active_channels == {ch.id : ch \in {x \in telegram_channels : x.is_active}}

\* A slip: the query of scrape_specific_channels without the is_active condition.
get_specific_channels_any(channel_ids) ==
    {ch.id : ch \in {x \in telegram_channels : x.id \in channel_ids}}

\* select(TelegramChannel).where(id.in_(channel_ids), is_active == True)
get_specific_channels(channel_ids) ==
    {ch.id : ch \in {x \in telegram_channels : x.id \in channel_ids /\ x.is_active}}

(***************************************************************************)
(* trigger_scrape -> scrape_all_active_channels / scrape_specific_channels *)
(***************************************************************************)
StartRun(r, selected, no_channels_error) ==
    /\ pc[r] = "idle"
    /\ now < MaxRuns
    /\ now' = now + 1
    /\ session' = [session EXCEPT ![r] = [EmptySession EXCEPT !.in_transaction = TRUE]]
    /\ result' = [result EXCEPT ![r] = NoResult]
    /\ batch' = [batch EXCEPT ![r] = <<>>]
    /\ messages_scraped' = [messages_scraped EXCEPT ![r] = 0]
    /\ messages_updated' = [messages_updated EXCEPT ![r] = 0]
    /\ start_rows' = [start_rows EXCEPT ![r] = {}]
    /\ start_channel' = [start_channel EXCEPT ![r] = None]
    /\ total_scraped' = [total_scraped EXCEPT ![r] = 0]
    /\ total_updated' = [total_updated EXCEPT ![r] = 0]
    /\ idx' = [idx EXCEPT ![r] = 1]
    /\ IF selected = {}
       THEN /\ channels' = [channels EXCEPT ![r] = <<>>]
            /\ errors' = [errors EXCEPT ![r] = <<>>]
            /\ summary' = [summary EXCEPT ![r] =
                   [kind |-> "returned", success |-> FALSE, channels_processed |-> 0,
                    total_messages_scraped |-> 0, total_messages_updated |-> 0,
                    errors |-> <<[channel |-> 0, error |-> no_channels_error]>>]]
            /\ pc' = pc
       ELSE /\ \E order \in Orders(selected) :
                channels' = [channels EXCEPT ![r] = order]
            /\ errors' = [errors EXCEPT ![r] = <<>>]
            /\ summary' = [summary EXCEPT ![r] = NoSummary]
            /\ pc' = [pc EXCEPT ![r] = "loop"]
    /\ UNCHANGED <<tables, other_vars>>

\* ScrapeRequest.limit: Field(200, ge=1, le=1000).  A body without `limit`
\* carries the default.
DefaultRequest == [limit |-> Limit]

\* The limits a body can name: from 1 to above the default.
RequestLimits == 1..(Limit + 1)

\* trigger_scrape's branch on scrape_request.channel_ids, with the call it
\* makes: scrape_specific_channels(db, channel_ids, limit=200) or
\* scrape_all_active_channels(db, limit=200).
Dispatch(r, channel_ids) ==
    IF channel_ids /= {}
    THEN StartRun(r, get_specific_channels(channel_ids),
                  "No matching active channels found")
    ELSE StartRun(r, get_active_channels, "No active channels found")

\* POST /scrape without channel_ids (and without limit).
scrape_all_active_channels(r) ==
    /\ Dispatch(r, {})
    /\ scrape_request' = [scrape_request EXCEPT ![r] = DefaultRequest]

\* POST /scrape with a non-empty list of channel ids (known or not), without
\* limit.
scrape_specific_channels(r) ==
    /\ \E channel_ids \in (SUBSET (ChanIds \cup {3})) \ {{}} :
           Dispatch(r, channel_ids)
    /\ scrape_request' = [scrape_request EXCEPT ![r] = DefaultRequest]

\* POST /scrape with a body that names a limit.  The limit is validated and
\* stored in scrape_request; the calls of Dispatch pass the literal 200.
scrape_with_limit(r) ==
    \E limit \in RequestLimits, channel_ids \in {{}, {1}, {1, 2}} :
        /\ Dispatch(r, channel_ids)
        /\ scrape_request' = [scrape_request EXCEPT ![r] = [limit |-> limit]]

(***************************************************************************)
(* scrape_channel, one step per await.                                     *)
(***************************************************************************)
\* A slip: last_scraped_at is stamped and committed when the call starts, before
\* anything is fetched.
BeginChannelStampFirst(r) ==
    /\ pc[r] = "loop"
    /\ idx[r] <= Len(channels[r])
    /\ LET c == channels[r][idx[r]]
       IN  /\ start_rows' = [start_rows EXCEPT ![r] = RowsOf(c)]
           /\ start_channel' = [start_channel EXCEPT ![r] = ChannelState(c)]
           /\ telegram_channels' =
                  {IF ch.id = c
                   THEN [ch EXCEPT !.last_scraped_at = Some(now), !.updated_at = now]
                   ELSE ch : ch \in telegram_channels}
    /\ batch' = [batch EXCEPT ![r] = <<>>]
    /\ messages_scraped' = [messages_scraped EXCEPT ![r] = 0]
    /\ messages_updated' = [messages_updated EXCEPT ![r] = 0]
    /\ result' = [result EXCEPT ![r] = NoResult]
    /\ pc' = [pc EXCEPT ![r] = "fetch"]
    /\ UNCHANGED <<telegram_messages, next_id, next_channel_pk, now, run_locals,
                   session, summary, other_vars>>

\* `for channel in channels:` calls scrape_channel for the next channel.
BeginChannel(r) ==
    /\ pc[r] = "loop"
    /\ idx[r] <= Len(channels[r])
    /\ LET c == channels[r][idx[r]]
       IN  /\ start_rows' = [start_rows EXCEPT ![r] = RowsOf(c)]
           /\ start_channel' = [start_channel EXCEPT ![r] = ChannelState(c)]
    /\ batch' = [batch EXCEPT ![r] = <<>>]
    /\ messages_scraped' = [messages_scraped EXCEPT ![r] = 0]
    /\ messages_updated' = [messages_updated EXCEPT ![r] = 0]
    /\ result' = [result EXCEPT ![r] = NoResult]
    /\ pc' = [pc EXCEPT ![r] = "fetch"]
    /\ UNCHANGED <<tables, now, run_locals, session, summary, other_vars>>

\* A slip: db.commit() inside the loop, after every message.
ProcessMessageCommitEach(r) ==
    /\ pc[r] = "fetch"
    /\ Len(batch[r]) < Limit
    /\ \E message \in SourceMessages(channels[r][idx[r]]) :
         LET c     == channels[r][idx[r]]
             found == Lookup(c, message.id)
         IN  /\ Cardinality(found) <= 1
             /\ batch' = [batch EXCEPT ![r] = Append(@, message)]
             /\ IF found /= {}
                THEN /\ telegram_messages' =
                            {IF m \in found THEN UpdateExisting(m, message) ELSE m :
                                 m \in telegram_messages}
                     /\ next_id' = next_id
                     /\ messages_updated' = [messages_updated EXCEPT ![r] = @ + 1]
                     /\ UNCHANGED messages_scraped
                ELSE /\ telegram_messages' = telegram_messages \cup
                            {[NewMessage(c, message) EXCEPT !.id = next_id,
                                                            !.created_at = now]}
                     /\ next_id' = next_id + 1
                     /\ messages_scraped' = [messages_scraped EXCEPT ![r] = @ + 1]
                     /\ UNCHANGED messages_updated
    /\ UNCHANGED <<telegram_channels, next_channel_pk, session, now, pc, run_locals,
                   result, summary,
                   start_rows, start_channel, other_vars>>

\* A slip: a session with autoflush=True.  The lookup flushes the pending inserts
\* first, so a message id added earlier in the batch is found and updated.
ProcessMessageAutoflush(r) ==
    /\ pc[r] = "fetch"
    /\ Len(batch[r]) < Limit
    /\ \E message \in SourceMessages(channels[r][idx[r]]) :
         LET c       == channels[r][idx[r]]
             found   == Lookup(c, message.id)
             pending == {i \in 1..Len(session[r].new) :
                            session[r].new[i].message_id = message.id}
         IN  /\ Cardinality(found) <= 1
             /\ batch' = [batch EXCEPT ![r] = Append(@, message)]
             /\ IF found /= {}
                THEN LET row      == CHOOSE m \in found : TRUE
                         existing == Loaded(session[r], row)
                     IN  /\ session' = [session EXCEPT
                                ![r].in_transaction = TRUE,
                                ![r].dirty = {d \in @ : d.id /= row.id}
                                    \cup {UpdateExisting(existing, message)}]
                         /\ messages_updated' = [messages_updated EXCEPT ![r] = @ + 1]
                         /\ UNCHANGED messages_scraped
                ELSE IF pending /= {}
                     THEN LET i == CHOOSE k \in pending : TRUE
                          IN  /\ session' = [session EXCEPT
                                     ![r].new[i] = UpdateExisting(@, message)]
                              /\ messages_updated' =
                                     [messages_updated EXCEPT ![r] = @ + 1]
                              /\ UNCHANGED messages_scraped
                     ELSE /\ session' = [session EXCEPT
                                     ![r].in_transaction = TRUE,
                                     ![r].new = Append(@, NewMessage(c, message))]
                          /\ messages_scraped' = [messages_scraped EXCEPT ![r] = @ + 1]
                          /\ UNCHANGED messages_updated
    /\ UNCHANGED <<tables, now, pc, run_locals, result, summary, start_rows,
                   start_channel, other_vars>>

\* The body of `async for message in client.iter_messages(...)` for one message:
\* the lookup and the update-or-add.  Nothing reaches the database: the session
\* does not autoflush and the lookup is a SELECT.
ProcessMessage(r) ==
    /\ pc[r] = "fetch"
    /\ Len(batch[r]) < Limit
    /\ \E message \in SourceMessages(channels[r][idx[r]]) :
         LET c     == channels[r][idx[r]]
             found == Lookup(c, message.id)
         IN  /\ Cardinality(found) <= 1
             /\ batch' = [batch EXCEPT ![r] = Append(@, message)]
             /\ IF found /= {}
                THEN LET row      == CHOOSE m \in found : TRUE
                         existing == Loaded(session[r], row)
                     IN  /\ session' = [session EXCEPT
                                ![r].in_transaction = TRUE,
                                ![r].dirty = {d \in @ : d.id /= row.id}
                                    \cup {UpdateExisting(existing, message)}]
                         /\ messages_updated' = [messages_updated EXCEPT ![r] = @ + 1]
                         /\ UNCHANGED messages_scraped
                ELSE /\ session' = [session EXCEPT
                                ![r].in_transaction = TRUE,
                                ![r].new = Append(@, NewMessage(c, message))]
                     /\ messages_scraped' = [messages_scraped EXCEPT ![r] = @ + 1]
                     /\ UNCHANGED messages_updated
    /\ UNCHANGED <<tables, now, pc, run_locals, result, summary, start_rows,
                   start_channel, other_vars>>

\* scrape_channel ends without committing: the session's pending work is
\* discarded and the exception leaves the scrape function.
AbortChannel(r, res) ==
    /\ pc[r] = "fetch"
    /\ session' = [session EXCEPT ![r] = EmptySession]
    /\ result' = [result EXCEPT ![r] = res]
    /\ summary' = [summary EXCEPT ![r] = RaisedSummary]
    /\ batch' = [batch EXCEPT ![r] = <<>>]
    /\ messages_scraped' = [messages_scraped EXCEPT ![r] = 0]
    /\ messages_updated' = [messages_updated EXCEPT ![r] = 0]
    /\ pc' = [pc EXCEPT ![r] = "idle"]
    /\ UNCHANGED <<now, run_locals, start_rows, start_channel, other_vars>>

\* A slip: the channels of a run are only flushed and the run has one
\* transaction, so that a rollback also drops what earlier channels of the run
\* had inserted.
FetchRaisesRunTransaction(r) ==
    /\ AbortChannel(r, [kind |-> "returned", success |-> FALSE, messages_scraped |-> 0,
                        messages_updated |-> 0, error |-> "fetch"])
    /\ telegram_messages' = {m \in telegram_messages : m.created_at /= now}
    /\ UNCHANGED <<telegram_channels, next_id, next_channel_pk>>

\* scrape_channel returns its failure dict and the caller records it:
\* errors.append(f"{channel.title}: {result['error']}"), then the next channel.
RecordFailure(r) ==
    /\ pc[r] = "fetch"
    /\ result' = [result EXCEPT ![r] =
           [kind |-> "returned", success |-> FALSE, messages_scraped |-> 0,
            messages_updated |-> 0, error |-> "fetch"]]
    /\ errors' = [errors EXCEPT ![r] =
           Append(@, [channel |-> channels[r][idx[r]], error |-> "fetch"])]
    /\ batch' = [batch EXCEPT ![r] = <<>>]
    /\ messages_scraped' = [messages_scraped EXCEPT ![r] = 0]
    /\ messages_updated' = [messages_updated EXCEPT ![r] = 0]
    /\ idx' = [idx EXCEPT ![r] = @ + 1]
    /\ pc' = [pc EXCEPT ![r] = "loop"]
    /\ UNCHANGED <<now, channels, total_scraped, total_updated, session, summary,
                   scrape_request,
                   start_rows, start_channel, other_vars>>

\* iter_messages or the lookup raises: control enters `except Exception`, which
\* prints and awaits db.rollback().  Inside a transaction (the channel query of
\* the run, or a lookup since the last commit, has begun one) the rollback
\* discards the pending objects and expires every object of the session, the
\* channel rows included (SQLAlchemy expires on rollback whatever
\* expire_on_commit says).  scrape_channel returns its failure dict; the caller's
\* errors.append(f"{channel.title}: ...") then reads an expired attribute outside
\* of any awaited call, which an AsyncSession cannot load (MissingGreenlet): the
\* exception leaves the scrape function.  With no transaction begun (the failure
\* comes right after a previous channel's commit, before any lookup) the rollback
\* does nothing and the failure is recorded.
FetchRaises(r) ==
    /\ IF session[r].in_transaction
       THEN AbortChannel(r, [kind |-> "returned", success |-> FALSE,
                             messages_scraped |-> 0, messages_updated |-> 0,
                             error |-> "fetch"])
       ELSE RecordFailure(r)
    /\ UNCHANGED tables

\* The request is cancelled at an await of scrape_channel.  CancelledError is not
\* an Exception: the handler is skipped and get_db closes the session, which
\* discards the pending work.
Cancelled(r) ==
    /\ AbortChannel(r, [NoResult EXCEPT !.kind = "raised", !.error = "CancelledError"])
    /\ UNCHANGED tables

\* A slip: the commit is left to the end of the run; scrape_channel returns with
\* its writes still pending in the session.
CommitChannelDeferred(r) ==
    /\ pc[r] = "fetch"
    /\ session' = [session EXCEPT ![r].last_scraped_at = Some(now)]
    /\ result' = [result EXCEPT ![r] =
           [kind |-> "returned", success |-> TRUE,
            messages_scraped |-> messages_scraped[r],
            messages_updated |-> messages_updated[r], error |-> "none"]]
    /\ total_scraped' = [total_scraped EXCEPT ![r] = @ + messages_scraped[r]]
    /\ total_updated' = [total_updated EXCEPT ![r] = @ + messages_updated[r]]
    /\ idx' = [idx EXCEPT ![r] = @ + 1]
    /\ pc' = [pc EXCEPT ![r] = "loop"]
    /\ UNCHANGED <<tables, now, channels, errors, call_locals, summary,
                   scrape_request, other_vars>>

\* The stream ends: last_scraped_at is set and db.commit() succeeds.  The caller
\* adds the counts to its totals and moves on.
CommitChannel(r) ==
    /\ pc[r] = "fetch"
    /\ LET c    == channels[r][idx[r]]
           s    == [session[r] EXCEPT !.last_scraped_at = Some(now)]
           rows == FlushRows(s)
       IN  /\ ChannelExists(c)
           /\ UniqueOk(rows)
           /\ telegram_messages' = rows
           /\ telegram_channels' = FlushChannels(s, c)
           /\ next_id' = next_id + Len(s.new)
           /\ UNCHANGED next_channel_pk
    /\ session' = [session EXCEPT ![r] = EmptySession]
    /\ result' = [result EXCEPT ![r] =
           [kind |-> "returned", success |-> TRUE,
            messages_scraped |-> messages_scraped[r],
            messages_updated |-> messages_updated[r], error |-> "none"]]
    /\ total_scraped' = [total_scraped EXCEPT ![r] = @ + messages_scraped[r]]
    /\ total_updated' = [total_updated EXCEPT ![r] = @ + messages_updated[r]]
    /\ idx' = [idx EXCEPT ![r] = @ + 1]
    /\ pc' = [pc EXCEPT ![r] = "loop"]
    /\ UNCHANGED <<now, channels, errors, call_locals, summary, scrape_request,
                   other_vars>>

\* The commit fails: the database rolls the transaction back and the session
\* expires its objects, so the handler's print of channel.title raises before
\* anything is returned.
CommitFails(r, error) ==
    /\ AbortChannel(r, [NoResult EXCEPT !.kind = "raised", !.error = error])
    /\ UNCHANGED tables

\* The flush violates idx_channel_message (IntegrityError).
CommitIntegrityError(r) ==
    /\ ~UniqueOk(FlushRows(session[r]))
    /\ CommitFails(r, "IntegrityError")

\* The channel row was deleted by another request since the run loaded it: the
\* UPDATE of last_scraped_at matches no row (StaleDataError) and the INSERTs
\* have no parent row.
CommitStale(r) ==
    /\ pc[r] = "fetch"
    /\ ~ChannelExists(channels[r][idx[r]])
    /\ CommitFails(r, "StaleDataError")

\* The database fails for a reason of its own (connection lost, ...), in the
\* flush (as above) or at COMMIT: then the handler prints, rolls back and returns
\* the failure dict, and the caller's read of channel.title raises.
CommitDbError(r) ==
    \/ CommitFails(r, "DBAPIError")
    \/ /\ AbortChannel(r, [kind |-> "returned", success |-> FALSE,
                            messages_scraped |-> 0, messages_updated |-> 0,
                            error |-> "DBAPIError"])
       /\ UNCHANGED tables

\* A slip: channels_processed counts the channels that succeeded.
ReturnSummaryCountsSuccesses(r) ==
    /\ pc[r] = "loop"
    /\ idx[r] > Len(channels[r])
    /\ summary' = [summary EXCEPT ![r] =
           [kind |-> "returned", success |-> (Len(errors[r]) = 0),
            channels_processed |-> Len(channels[r]) - Len(errors[r]),
            total_messages_scraped |-> total_scraped[r],
            total_messages_updated |-> total_updated[r],
            errors |-> errors[r]]]
    /\ pc' = [pc EXCEPT ![r] = "idle"]
    /\ UNCHANGED <<tables, now, run_locals, call_locals, session, result, other_vars>>

\* The loop is over: the summary dict is returned.
ReturnSummary(r) ==
    /\ pc[r] = "loop"
    /\ idx[r] > Len(channels[r])
    /\ summary' = [summary EXCEPT ![r] =
           [kind |-> "returned", success |-> (Len(errors[r]) = 0),
            channels_processed |-> Len(channels[r]),
            total_messages_scraped |-> total_scraped[r],
            total_messages_updated |-> total_updated[r],
            errors |-> errors[r]]]
    /\ pc' = [pc EXCEPT ![r] = "idle"]
    /\ UNCHANGED <<tables, now, run_locals, call_locals, session, result, other_vars>>

(***************************************************************************)
(* Specification of sequential scrape runs (one request at a time).        *)
(***************************************************************************)
\* No request is being served.
RunsIdle ==
    /\ now = 0
    /\ pc = [r \in Sessions |-> "idle"]
    /\ channels = [r \in Sessions |-> <<>>]
    /\ idx = [r \in Sessions |-> 1]
    /\ batch = [r \in Sessions |-> <<>>]
    /\ messages_scraped = [r \in Sessions |-> 0]
    /\ messages_updated = [r \in Sessions |-> 0]
    /\ session = [r \in Sessions |-> EmptySession]
    /\ total_scraped = [r \in Sessions |-> 0]
    /\ total_updated = [r \in Sessions |-> 0]
    /\ errors = [r \in Sessions |-> <<>>]
    /\ result = [r \in Sessions |-> NoResult]
    /\ summary = [r \in Sessions |-> NoSummary]
    /\ start_rows = [r \in Sessions |-> {}]
    /\ start_channel = [r \in Sessions |-> None]
    /\ scrape_request = [r \in Sessions |-> DefaultRequest]

ScrapeInit ==
    /\ telegram_channels \in
           {{[id |-> c, channel_id |-> ExternalId(c), is_active |-> act[c],
              updated_at |-> 0, last_scraped_at |-> None,
              subscriber_count |-> None] : c \in ChanIds} :
                act \in {a \in [ChanIds -> BOOLEAN] : a[2] => a[1]}}
    /\ telegram_messages = {}
    /\ next_id = 1
    /\ next_channel_pk = Cardinality(ChanIds) + 1
    /\ RunsIdle

StatsIdle ==
    /\ s_input = [kind |-> "none"]
    /\ s_result = [kind |-> "none"]

MetricIdle ==
    /\ m_message = [views |-> None, forwards |-> None, replies |-> None,
                    reactions |-> None]
    /\ m_result = [kind |-> "none"]

AdminIdle ==
    a_result = [seq |-> 0, op |-> "none", id |-> 0, body |-> <<>>, status |-> 0]

Init == ScrapeInit /\ MetricIdle /\ StatsIdle /\ AdminIdle

Next ==
    \E r \in {1} :
        \/ scrape_all_active_channels(r)
        \/ scrape_specific_channels(r)
        \/ BeginChannel(r)
        \/ ProcessMessage(r)
        \/ FetchRaises(r)
        \/ Cancelled(r)
        \/ CommitChannel(r)
        \/ CommitIntegrityError(r)
        \/ CommitDbError(r)
        \/ ReturnSummary(r)

Spec == Init /\ [][Next]_vars

(***************************************************************************)
(* Properties of the scrape run.                                           *)
(***************************************************************************)
\* The channel the session's current (or last) scrape_channel call is about.
CallChannel(r) ==
    IF pc[r] = "fetch" \/ summary[r].kind = "raised"
    THEN channels[r][idx[r]]
    ELSE channels[r][idx[r] - 1]

\* scrape_channel has just returned success and the caller stands in its loop.
JustCommitted(r) == pc[r] = "loop" /\ result[r].kind = "returned" /\ result[r].success

MetricFields(row) ==
    [views |-> row.views, forwards |-> row.forwards, replies |-> row.replies,
     total_reactions |-> row.total_reactions,
     engagement_count |-> row.engagement_count,
     engagement_rate |-> row.engagement_rate, post_length |-> row.post_length]

FixedFields(row) ==
    [id |-> row.id, channel_id |-> row.channel_id, message_id |-> row.message_id,
     text |-> row.text, date |-> row.date, created_at |-> row.created_at]

DistinctIds(b) == \A i, j \in 1..Len(b) : b[i].id = b[j].id => i = j

\* The last message of batch b with id mid.
LastWithId(b, mid) ==
    b[CHOOSE i \in 1..Len(b) :
          /\ b[i].id = mid
          /\ \A j \in 1..Len(b) : b[j].id = mid => j <= i]

\* C1: after any sequence of scrape runs, succeeding or failing, the committed
\* store holds at most one post row per (channel, message id).
C1_AtMostOneRowPerKey ==
    \A a, b \in telegram_messages :
        (a.channel_id = b.channel_id /\ a.message_id = b.message_id) => a = b

\* A run was refused by the unique index while the channel already held two posts.
C1_Witness ==
    /\ result[1].kind = "raised"
    /\ result[1].error = "IntegrityError"
    /\ Cardinality(RowsOf(1)) = 2

C3_UpdateInPlace ==
    [][\A r \in Sessions :
         /\ (/\ pc[r] = "fetch"
             /\ Len(batch'[r]) = Len(batch[r]) + 1
             /\ Lookup(channels[r][idx[r]], batch'[r][Len(batch'[r])].id) /= {})
            => LET message == batch'[r][Len(batch'[r])]
                   row     == CHOOSE m \in Lookup(channels[r][idx[r]], message.id) : TRUE
               IN  /\ \E obj \in session'[r].dirty :
                          /\ FixedFields(obj) = FixedFields(row)
                          /\ MetricFields(obj) = Metrics(message)
                   /\ \A obj \in session'[r].dirty :
                          obj.id = row.id \/ obj \in session[r].dirty
                   /\ \A obj \in session[r].dirty :
                          obj.id = row.id \/ obj \in session'[r].dirty
                   /\ Cardinality({obj \in session'[r].dirty : obj.id = row.id}) = 1
                   /\ session'[r].new = session[r].new
                   /\ telegram_messages' = telegram_messages
                   /\ messages_updated'[r] = messages_updated[r] + 1
                   /\ messages_scraped'[r] = messages_scraped[r]
         /\ (pc[r] = "fetch" /\ JustCommitted(r)')
            => LET c == channels[r][idx[r]]
               IN  /\ \A old \in RowsOf(c) :
                          \E row \in RowsIn(telegram_messages', c) :
                              /\ FixedFields(row) = FixedFields(old)
                              /\ IF \E i \in 1..Len(batch[r]) :
                                        batch[r][i].id = old.message_id
                                 THEN MetricFields(row) =
                                          Metrics(LastWithId(batch[r], old.message_id))
                                 ELSE row = old
                   /\ Cardinality(RowsIn(telegram_messages', c)) =
                          Cardinality(RowsOf(c)) + messages_scraped[r]
      ]_vars

\* A stored post was re-fetched with other content: its metrics follow the fetch,
\* its text does not.
C3_Witness ==
    /\ JustCommitted(1)
    /\ result[1].messages_updated = 1
    /\ result[1].messages_scraped = 0
    /\ \E old \in start_rows[1], row \in RowsOf(CallChannel(1)) :
           /\ row.id = old.id
           /\ old.views = Some(100)
           /\ row.views = Some(150)
           /\ row.text = old.text
           /\ row.text /= batch[1][1].text
           /\ row.created_at < now

\* C4: when a scrape_channel call fails, the committed rows of the channel and
\* the committed channel row (last_scraped_at) are what they were before the call.
C4_FailedCallLeavesNoTrace ==
    \A r \in Sessions :
        (result[r].kind /= "none" /\ ~result[r].success)
        => /\ RowsOf(CallChannel(r)) = start_rows[r]
           /\ Some(ChannelRow(CallChannel(r))) = start_channel[r]

\* The commit of a batch that held updates of stored rows was refused.
C4_Witness ==
    /\ result[1].kind = "raised"
    /\ result[1].error = "IntegrityError"
    /\ start_rows[1] /= {}
    /\ RowsOf(CallChannel(1)) = start_rows[1]

\* C5: a failing channel adds one entry to errors and nothing to the totals, the
\* later channels are still scraped, the run returns a summary instead of
\* raising, and success is true exactly when errors is empty.
C5_FailureIsolation ==
    \A r \in Sessions :
        /\ summary[r].kind /= "raised"
        /\ (result[r].kind = "returned" /\ ~result[r].success) =>
               /\ Len(errors[r]) >= 1
               /\ errors[r][Len(errors[r])].channel = CallChannel(r)
        /\ (summary[r].kind = "returned" /\ channels[r] /= <<>>) =>
               /\ idx[r] > Len(channels[r])
               /\ summary[r].success <=> (summary[r].errors = <<>>)

\* C6: once a channel's batch is committed in a run, no later step of that run
\* (a later channel failing and rolling back, the run being cancelled) changes the
\* channel's committed rows or its channel row.
C6_CommittedBatchesStay ==
    [][\A r \in Sessions :
         \A j \in 1..Len(channels[r]) :
             (pc[r] \in {"loop", "fetch"} /\ j < idx[r])
             => /\ RowsIn(telegram_messages', channels[r][j]) = RowsOf(channels[r][j])
                /\ ChannelRowIn(telegram_channels', channels[r][j])
                       = ChannelRow(channels[r][j])
      ]_vars

\* The second channel of a run failed after the first had inserted rows.
C6_Witness ==
    /\ summary[1].kind = "raised"
    /\ idx[1] = 2
    /\ \E m \in RowsOf(channels[1][1]) : m.created_at = now
    /\ ChannelRow(channels[1][1]).last_scraped_at = Some(now)

\* C7: every stored post has engagement_count = total_reactions + forwards +
\* replies, a NULL forwards or replies counting as 0.
C7_EngagementCountInvariant ==
    \A m \in telegram_messages :
        m.engagement_count = m.total_reactions + OrZero(m.forwards) + OrZero(m.replies)

\* A row inserted with forwards and replies was updated in place to a fetch
\* without them.
C7_Witness ==
    \E m \in telegram_messages :
        /\ m.date = 2
        /\ m.forwards = None
        /\ m.replies = None
        /\ m.engagement_count = 0

(***************************************************************************)
(* Specification of the metric functions: a message is drawn, then one of  *)
(* the functions is applied to it.                                         *)
(***************************************************************************)
MetricInit ==
    /\ ScrapeInit
    /\ \A ch \in telegram_channels : ch.is_active
    /\ m_message \in MetricMessages
    /\ m_result = [kind |-> "none"]
    /\ StatsIdle
    /\ AdminIdle

\* scrape_channel's use: get_total_reactions, then calculate_engagement.
ApplyScraperMetrics ==
    /\ m_result.kind = "none"
    /\ LET total_reactions == scraper_get_total_reactions(m_message.reactions)
           engagement      == calculate_engagement(m_message, total_reactions)
       IN  m_result' = [kind |-> "scraper", total_reactions |-> total_reactions,
                        engagement_count |-> engagement.engagement_count,
                        engagement_rate |-> engagement.engagement_rate]
    /\ UNCHANGED <<scrape_vars, m_message, stats_vars, admin_vars>>

\* export_channel's use of the parser.py copies.
ApplyParserMetrics ==
    /\ m_result.kind = "none"
    /\ LET totals          == parser_reaction_totals(m_message.reactions)
           total_reactions == parser_get_total_reactions(m_message.reactions)
           engagement      == parser_calculate_engagement(m_message, total_reactions)
       IN  m_result' = [kind |-> "parser", total_reactions |-> total_reactions,
                        total_free |-> totals.total_free,
                        total_paid |-> totals.total_paid,
                        engagement_count |-> engagement.engagement_count,
                        engagement_rate |-> engagement.engagement_rate]
    /\ UNCHANGED <<scrape_vars, m_message, stats_vars, admin_vars>>

ApplyReactionBreakdown ==
    /\ m_result.kind = "none"
    /\ m_result' = [kind |-> "breakdown",
                    breakdown |-> get_reaction_breakdown(m_message.reactions)]
    /\ UNCHANGED <<scrape_vars, m_message, stats_vars, admin_vars>>

MetricNext ==
    \/ ApplyScraperMetrics
    \/ ApplyParserMetrics
    \/ ApplyReactionBreakdown

SpecMetrics == MetricInit /\ [][MetricNext]_vars

(***************************************************************************)
(* Properties of the metric functions.                                     *)
(***************************************************************************)
\* The entries of a reaction collection (none when it is missing).
ResultsOf(reactions) == IF reactions = None THEN <<>> ELSE reactions[1]

RECURSIVE SumOver(_, _)
SumOver(results, indices) ==
    IF indices = {} THEN 0
    ELSE LET i == CHOOSE j \in indices : TRUE
         IN  OrZero(results[i].count) + SumOver(results, indices \ {i})

\* Sum of the counts of the entries that are free by the rule of the claim.
FreeSum(reactions) ==
    LET results == ResultsOf(reactions)
    IN  SumOver(results, {i \in 1..Len(results) :
                              \/ results[i].reaction = "None"
                              \/ results[i].reaction \notin
                                     {"ReactionPaid", "ReactionCustomEmoji"}})

AllCountsSum(reactions) ==
    LET results == ResultsOf(reactions)
    IN  SumOver(results, 1..Len(results))

ScenarioMessage ==
    [views |-> Some(1000), forwards |-> Some(5), replies |-> Some(3),
     reactions |-> Some(<<[reaction |-> "ReactionEmoji", count |-> Some(20)],
                          [reaction |-> "ReactionPaid", count |-> Some(50)]>>)]

\* C8: calculate_engagement returns a defined result (a count and a rate) for every
\* combination of views, forwards, replies (each possibly missing) and reaction
\* total; the rate is 0 whenever views is missing or <= 0; all-zero input gives
\* count 0 and rate 0.
C8_EngagementTotalZeroRate ==
    m_result.kind \in {"scraper", "parser"} =>
        /\ m_result.engagement_count \in Nat
        /\ m_result.engagement_rate \in Nat
        /\ (m_message.views = None \/ m_message.views[1] <= 0) =>
               m_result.engagement_rate = 0
        /\ (/\ OrZero(m_message.views) = 0
            /\ OrZero(m_message.forwards) = 0
            /\ OrZero(m_message.replies) = 0
            /\ m_result.total_reactions = 0) =>
               (m_result.engagement_count = 0 /\ m_result.engagement_rate = 0)

C8_Witness ==
    /\ m_result.kind = "scraper"
    /\ m_message.views = Some(0)
    /\ m_result.engagement_count = 28
    /\ m_result.engagement_rate = 0

\* C9: the free-reaction total is the sum of the counts of exactly the entries
\* without a kind or of a kind other than ReactionPaid / ReactionCustomEmoji; it
\* is 0 without reactions, a missing count adds 0, it is never negative; and
\* views=1000, forwards=5, replies=3, free=20, paid=50 gives 20, 28 and 2.8.
C9_FreeReactionTotal ==
    m_result.kind \in {"scraper", "parser"} =>
        /\ m_result.total_reactions = FreeSum(m_message.reactions)
        /\ m_result.total_reactions >= 0
        /\ ResultsOf(m_message.reactions) = <<>> => m_result.total_reactions = 0
        /\ m_message = ScenarioMessage =>
               /\ m_result.total_reactions = 20
               /\ m_result.engagement_count = 28
               /\ m_result.engagement_rate = 28000

C9_Witness ==
    /\ m_result.kind = "scraper"
    /\ m_message = ScenarioMessage
    /\ m_result.total_reactions = 20
    /\ m_result.engagement_rate = 28000

\* C10: when every entry of the batch has a kind, free total + paid total is the
\* sum of all counts, for the totals of get_total_reactions and for
\* total_free_reactions + total_paid_reactions of get_reaction_breakdown; entries
\* without a kind count toward the free total.
C10_FreePlusPaidIsSum ==
    LET results  == ResultsOf(m_message.reactions)
        all_kind == \A i \in 1..Len(results) : results[i].reaction /= "None"
    IN  /\ (m_result.kind = "parser" /\ all_kind) =>
               m_result.total_free + m_result.total_paid
                   = AllCountsSum(m_message.reactions)
        /\ (m_result.kind = "breakdown" /\ all_kind /\ m_result.breakdown.has_totals) =>
               m_result.breakdown.total_free_reactions
                   + m_result.breakdown.total_paid_reactions
                   = AllCountsSum(m_message.reactions)
        /\ m_result.kind = "parser" =>
               m_result.total_free
                   >= SumOver(results, {i \in 1..Len(results) :
                                            results[i].reaction = "None"})

(***************************************************************************)
(* Channel statistics and ranking (parser.py) and GET /stats/channels.     *)
(* Medians are kept in halves of the unit of their data (the midpoint of   *)
(* two integers is a multiple of 1/2), averages in hundredths.             *)
(***************************************************************************)
MapSeq(seq, f(_)) == [i \in 1..Len(seq) |-> f(seq[i])]

Reverse(seq) == [i \in 1..Len(seq) |-> seq[Len(seq) + 1 - i]]

RECURSIVE SumSeq(_)
SumSeq(values) == IF values = <<>> THEN 0 ELSE Head(values) + SumSeq(Tail(values))

RECURSIVE InsertAsc(_, _)
InsertAsc(sorted, x) ==
    IF sorted = <<>> THEN <<x>>
    ELSE IF Head(sorted) <= x
         THEN <<Head(sorted)>> \o InsertAsc(Tail(sorted), x)
         ELSE <<x>> \o sorted

\* sorted(data)
RECURSIVE SortAsc(_)
SortAsc(data) ==
    IF data = <<>> THEN <<>>
    ELSE InsertAsc(SortAsc(SubSeq(data, 1, Len(data) - 1)), data[Len(data)])

\* A slip: the lower middle value for an even count (statistics.median_low).
median_low(data) ==
    LET s == SortAsc(data)
        n == Len(s)
    IN  IF n % 2 = 1 THEN 2 * s[(n + 1) \div 2] ELSE 2 * s[n \div 2]

\* statistics.median(data) of a non-empty list, and PostgreSQL's
\* percentile_cont(0.5) of a non-empty group: the middle value of the sorted
\* data, or (lower middle + upper middle) / 2 for an even count.
median(data) ==
    LET s == SortAsc(data)
        n == Len(s)
    IN  IF n % 2 = 1 THEN 2 * s[(n + 1) \div 2] ELSE s[n \div 2] + s[n \div 2 + 1]

\* `statistics.median(xs) if xs else 0`
MedianOrZero(data) == IF data = <<>> THEN 0 ELSE median(data)

\* list.sort(key=..., reverse=True) on entries [key, item]: stable.
RECURSIVE InsertByKeyDesc(_, _)
InsertByKeyDesc(sorted, x) ==
    IF sorted = <<>> THEN <<x>>
    ELSE IF Head(sorted).key >= x.key
         THEN <<Head(sorted)>> \o InsertByKeyDesc(Tail(sorted), x)
         ELSE <<x>> \o sorted

RECURSIVE SortByKeyDesc(_)
SortByKeyDesc(entries) ==
    IF entries = <<>> THEN <<>>
    ELSE InsertByKeyDesc(SortByKeyDesc(SubSeq(entries, 1, Len(entries) - 1)),
                         entries[Len(entries)])

\* The dict export_channel builds for one message.
ExportMessage(name, message) ==
    LET total_reactions == parser_get_total_reactions(message.reactions)
        engagement      == parser_calculate_engagement(message, total_reactions)
    IN  [channel |-> name, id |-> message.id, date |-> message.date,
         text |-> message.text,
         post_length |-> IF message.text = None \/ message.text[1] = <<>>
                         THEN 0 ELSE Len(message.text[1]),
         views |-> message.views, forwards |-> message.forwards,
         replies |-> message.replies, total_reactions |-> total_reactions,
         engagement_count |-> engagement.engagement_count,
         engagement_rate |-> engagement.engagement_rate]

\* export_channel: the dicts of the messages iterated (newest first), reversed
\* to chronological order, with the subscriber count (0 when it is unknown).
export_channel(name, iterated, subscribers) ==
    [messages |-> Reverse(MapSeq(iterated, LAMBDA m : ExportMessage(name, m))),
     subscribers |-> subscribers, channel_name |-> name]

\* valid_messages = [m for m in messages if (m.get("views") or 0) > 0]
valid_messages(messages) == SelectSeq(messages, LAMBDA m : OrZero(m.views) > 0)

\* The body of calculate_channel_stats' loop for one channel: nothing when the
\* channel has no valid message, else its statistics.  Each list keeps the valid
\* messages whose field is present (truthy, for views); total_reactions,
\* post_length and the engagement fields are always present in an export.
channel_stats_or_skip(channel_data) ==
    LET valid         == valid_messages(channel_data.messages)
        views_list    == MapSeq(SelectSeq(valid, LAMBDA m : Truthy(m.views)),
                                LAMBDA m : m.views[1])
        comments_list == MapSeq(SelectSeq(valid, LAMBDA m : m.replies /= None),
                                LAMBDA m : OrZero(m.replies))
        forwards_list == MapSeq(SelectSeq(valid, LAMBDA m : m.forwards /= None),
                                LAMBDA m : OrZero(m.forwards))
    IN  IF valid = <<>> THEN <<>>
        ELSE <<[channel |-> channel_data.channel_name,
                subscribers |-> channel_data.subscribers,
                posts_analyzed |-> Len(valid),
                median_post_length |->
                    MedianOrZero(MapSeq(valid, LAMBDA m : m.post_length)),
                median_views |-> MedianOrZero(views_list),
                median_reactions |->
                    MedianOrZero(MapSeq(valid, LAMBDA m : m.total_reactions)),
                median_forwards |-> MedianOrZero(forwards_list),
                median_comments |-> MedianOrZero(comments_list),
                median_engagement_count |->
                    MedianOrZero(MapSeq(valid, LAMBDA m : m.engagement_count)),
                median_engagement_rate |->
                    MedianOrZero(MapSeq(valid, LAMBDA m : m.engagement_rate))]>>

RECURSIVE channel_stats_loop(_)
channel_stats_loop(channel_data_list) ==
    IF channel_data_list = <<>> THEN <<>>
    ELSE channel_stats_or_skip(Head(channel_data_list))
             \o channel_stats_loop(Tail(channel_data_list))

\* calculate_channel_stats: the loop, then
\* stats.sort(key=lambda x: x["subscribers"], reverse=True).
calculate_channel_stats(channel_data_list) ==
    LET stats == channel_stats_loop(channel_data_list)
    IN  MapSeq(SortByKeyDesc(MapSeq(stats,
                   LAMBDA x : [key |-> x.subscribers, item |-> x])),
               LAMBDA e : e.item)

\* Largest top_n of the ranking calls (5 in the code), scaled down.
MaxTop == 2

\* The metrics collect_top_posts is asked to sort by.
SortKeys == {"engagement_rate", "engagement_count", "views"}

\* seq[:n] of Python, n of either sign.
SliceTo(seq, n) ==
    IF n >= 0
    THEN SubSeq(seq, 1, IF n < Len(seq) THEN n ELSE Len(seq))
    ELSE SubSeq(seq, 1, IF Len(seq) + n > 0 THEN Len(seq) + n ELSE 0)

\* A slip: only the posts without views are skipped.
scored_posts_views_only(messages_all) ==
    MapSeq(SelectSeq(messages_all, LAMBDA msg : ~(OrZero(msg.views) <= 0)),
           LAMBDA msg :
               [channel |-> msg.channel, id |-> msg.id, date |-> msg.date,
                text_preview |-> msg.text,
                views |-> OrZero(msg.views), forwards |-> OrZero(msg.forwards),
                replies |-> OrZero(msg.replies),
                total_reactions |-> msg.total_reactions,
                engagement_count |-> msg.engagement_count,
                engagement_rate |-> msg.engagement_rate,
                reactions_per_view |->
                    RoundHalfEven(msg.total_reactions * 1000000, OrZero(msg.views))])

\* The loop of collect_top_posts: posts with views <= 0 or engagement_count <= 0
\* are skipped, the others are copied with their metrics (reactions_per_view in
\* millionths; the preview is the text cut at 120 characters).
scored_posts(messages_all) ==
    MapSeq(SelectSeq(messages_all,
               LAMBDA msg : ~(OrZero(msg.views) <= 0 \/ msg.engagement_count <= 0)),
           LAMBDA msg :
               [channel |-> msg.channel, id |-> msg.id, date |-> msg.date,
                text_preview |->
                    IF msg.text /= None /\ Len(msg.text[1]) > 120
                    THEN Some(SubSeq(msg.text[1], 1, 120) \o <<"...">>)
                    ELSE msg.text,
                views |-> OrZero(msg.views), forwards |-> OrZero(msg.forwards),
                replies |-> OrZero(msg.replies),
                total_reactions |-> msg.total_reactions,
                engagement_count |-> msg.engagement_count,
                engagement_rate |-> msg.engagement_rate,
                reactions_per_view |->
                    RoundHalfEven(msg.total_reactions * 1000000, OrZero(msg.views))])

\* scored.sort(key=lambda x: x.get(sort_by, 0), reverse=True)
sort_scored(scored, sort_by) ==
    MapSeq(SortByKeyDesc(MapSeq(scored,
               LAMBDA x : [key  |-> IF sort_by \in DOMAIN x THEN x[sort_by] ELSE 0,
                           item |-> x])),
           LAMBDA e : e.item)

\* A slip: sorted ascending and reversed, which turns ties around.
collect_top_posts_reversed_ties(messages_all, top_n, sort_by) ==
    SliceTo(Reverse(MapSeq(SortByKeyDesc(MapSeq(scored_posts(messages_all),
                LAMBDA x : [key |-> 0 - x[sort_by], item |-> x])),
            LAMBDA e : e.item)), top_n)

\* collect_top_posts(messages_all, top_n, sort_by)
collect_top_posts(messages_all, top_n, sort_by) ==
    SliceTo(sort_scored(scored_posts(messages_all), sort_by), top_n)

\* The rows of a set as a list (by primary key); aggregates do not depend on
\* the order.
RECURSIVE RowList(_)
RowList(rows) ==
    IF rows = {} THEN <<>>
    ELSE LET first == CHOOSE m \in rows : \A o \in rows : m.id <= o.id
         IN  <<first>> \o RowList(rows \ {first})

\* The non-NULL values of a nullable column: SQL aggregates skip NULL.
NonNull(rows, column) ==
    MapSeq(SelectSeq(RowList(rows), LAMBDA m : m[column] /= None),
           LAMBDA m : m[column][1])

\* `round(avg, 2) if avg else 0.0` of func.avg over a group, in hundredths:
\* NULL for an empty group.
AvgOrZero(values) ==
    IF values = <<>> \/ SumSeq(values) = 0 THEN 0
    ELSE RoundHalfEven(SumSeq(values) * 100, Len(values))

\* The ChannelStats of one channel row: every aggregate runs over the
\* channel's rows with views > 0 (NULL > 0 is not true).  The 7-day median and
\* the float averages are left out.
channel_stat(channel) ==
    LET rows == {m \in RowsOf(channel.id) : m.views /= None /\ m.views[1] > 0}
    IN  [channel_id |-> channel.id,
         is_active |-> channel.is_active,
         last_scraped_at |-> channel.last_scraped_at,
         subscriber_count |-> channel.subscriber_count,
         total_messages |-> Cardinality(rows),
         avg_views |-> AvgOrZero(NonNull(rows, "views")),
         avg_forwards |-> AvgOrZero(NonNull(rows, "forwards")),
         avg_replies |-> AvgOrZero(NonNull(rows, "replies")),
         median_views |-> MedianOrZero(NonNull(rows, "views")),
         median_reactions |->
             MedianOrZero(MapSeq(RowList(rows), LAMBDA m : m.total_reactions)),
         median_comments |-> MedianOrZero(NonNull(rows, "replies"))]

\* The channels GET /stats/channels selects: all, or those with the given flag.
stats_channels(is_active) ==
    {ch \in telegram_channels : is_active = None \/ ch.is_active = is_active[1]}

\* get_channel_stats for the order in which the SELECT (no ORDER BY) returned
\* the channels: one entry per channel, in that order.
get_channel_stats(order) == MapSeq(order, channel_stat)

(***************************************************************************)
(* Specification of the statistics and ranking functions: the same posts   *)
(* as exported by export_channel and as stored by scrape_channel.          *)
(***************************************************************************)
\* Positions of the posts a channel shows.
PostIds == {1, 2, 3, 4}

StatProfile(views, replies) ==
    [date |-> 1, text |-> Some(<<"a">>), views |-> views, forwards |-> None,
     replies |-> replies, reactions |-> None]

\* Contents of a post: without views, with zero views, seen but without a
\* replies value, and seen with replies.
StatProfiles ==
    {StatProfile(None, Some(4)), StatProfile(Some(0), Some(4)),
     StatProfile(Some(10), None), StatProfile(Some(20), Some(4)),
     StatProfile(Some(30), Some(4)), StatProfile(Some(40), Some(8))}

\* What iter_messages yields for the first channel: up to four posts.
StatBatches ==
    UNION {{[i \in 1..n |-> Message(i, p[i])] : p \in [1..n -> StatProfiles]} :
               n \in 0..Cardinality(PostIds)}

\* The second channel shows nothing or one post.
OtherBatches == {<<>>, <<Message(1, StatProfile(Some(20), Some(4)))>>}

\* Subscriber counts of the two channels.
SubscriberPairs == {<<0, 100>>, <<100, 100>>, <<100, 0>>}

\* The rows scrape_channel stores for the messages of channel c, keys from first.
StoredRows(c, iterated, first) ==
    {[NewMessage(c, iterated[i]) EXCEPT !.id = first + i - 1, !.created_at = 0] :
         i \in 1..Len(iterated)}

StatsInit ==
    /\ RunsIdle
    /\ MetricIdle
    /\ AdminIdle
    /\ \E b1 \in StatBatches, b2 \in OtherBatches, subs \in SubscriberPairs,
          active2 \in BOOLEAN :
         /\ s_input = [kind |-> "export",
                       channel_data_list |-> <<export_channel(1, b1, subs[1]),
                                               export_channel(2, b2, subs[2])>>]
         /\ telegram_messages = StoredRows(1, b1, 1) \cup StoredRows(2, b2, Len(b1) + 1)
         /\ next_id = Len(b1) + Len(b2) + 1
         /\ next_channel_pk = Cardinality(ChanIds) + 1
         /\ telegram_channels =
                {[id |-> c, channel_id |-> ExternalId(c),
                  is_active |-> (c = 1 \/ active2),
                  updated_at |-> 0, last_scraped_at |-> Some(0),
                  subscriber_count |-> Some(subs[c])] : c \in ChanIds}
    /\ s_result = [kind |-> "none"]

\* all_messages of main(): the messages of every exported channel.
RECURSIVE all_messages(_)
all_messages(channel_data_list) ==
    IF channel_data_list = <<>> THEN <<>>
    ELSE Head(channel_data_list).messages \o all_messages(Tail(channel_data_list))

ApplyCalculateChannelStats ==
    /\ s_result.kind = "none"
    /\ s_result' = [kind |-> "calculate_channel_stats",
                    stats |-> calculate_channel_stats(s_input.channel_data_list)]
    /\ UNCHANGED <<scrape_vars, metric_vars, s_input, admin_vars>>

ApplyCollectTopPosts ==
    /\ s_result.kind = "none"
    /\ \E top_n \in 0..MaxTop, sort_by \in SortKeys :
         s_result' = [kind |-> "collect_top_posts", top_n |-> top_n,
                      sort_by |-> sort_by,
                      top |-> collect_top_posts(all_messages(s_input.channel_data_list),
                                                top_n, sort_by)]
    /\ UNCHANGED <<scrape_vars, metric_vars, s_input, admin_vars>>

\* GET /stats/channels, with or without the is_active filter.
ApplyGetChannelStats ==
    /\ s_result.kind = "none"
    /\ \E is_active \in {None, Some(TRUE), Some(FALSE)} :
         \E order \in Orders(stats_channels(is_active)) :
           s_result' = [kind |-> "get_channel_stats", is_active |-> is_active,
                        stats |-> get_channel_stats(order)]
    /\ UNCHANGED <<scrape_vars, metric_vars, s_input, admin_vars>>

StatsNext ==
    \/ ApplyCalculateChannelStats
    \/ ApplyCollectTopPosts
    \/ ApplyGetChannelStats

SpecStats == StatsInit /\ [][StatsNext]_vars

(***************************************************************************)
(* Properties of the statistics and the ranking.                           *)
(***************************************************************************)
\* The exported data of the channel named c.
ChannelData(c) ==
    LET l == s_input.channel_data_list
    IN  l[CHOOSE j \in 1..Len(l) : l[j].channel_name = c]

\* The posts of channel c with views > 0, as exported.
ValidPosts(c) ==
    SelectSeq(ChannelData(c).messages, LAMBDA m : m.views /= None /\ m.views[1] > 0)

\* The channel an entry of either statistics output is about.
EntryChannel(e) == IF "channel" \in DOMAIN e THEN e.channel ELSE e.channel_id

StatsReported ==
    s_result.kind \in {"calculate_channel_stats", "get_channel_stats"}

\* C11: a channel without any post with views > 0 has no entry in the output
\* of calculate_channel_stats nor in that of get_channel_stats.
C11_NoValidPostNoEntry ==
    StatsReported =>
        \A i \in 1..Len(s_result.stats) :
            ValidPosts(EntryChannel(s_result.stats[i])) /= <<>>

\* C12: every statistic of a reported channel is taken over all its posts with
\* views > 0, a missing replies or forwards value counting as 0; the number of
\* these posts is posts_analyzed / total_messages.
C12_SameSetForEveryStatistic ==
    StatsReported =>
        \A i \in 1..Len(s_result.stats) :
            LET e        == s_result.stats[i]
                valid    == ValidPosts(EntryChannel(e))
                replies  == MapSeq(valid, LAMBDA m : OrZero(m.replies))
                forwards == MapSeq(valid, LAMBDA m : OrZero(m.forwards))
                views    == MapSeq(valid, LAMBDA m : m.views[1])
            IN  IF s_result.kind = "calculate_channel_stats"
                THEN /\ e.posts_analyzed = Len(valid)
                     /\ e.median_views = MedianOrZero(views)
                     /\ e.median_comments = MedianOrZero(replies)
                     /\ e.median_forwards = MedianOrZero(forwards)
                ELSE /\ e.total_messages = Len(valid)
                     /\ e.median_views = MedianOrZero(views)
                     /\ e.median_comments = MedianOrZero(replies)
                     /\ e.avg_replies = AvgOrZero(replies)
                     /\ e.avg_forwards = AvgOrZero(forwards)

\* The k-th smallest value of a list.
KthSmallest(data, k) ==
    CHOOSE x \in {data[i] : i \in 1..Len(data)} :
        /\ Cardinality({i \in 1..Len(data) : data[i] < x}) < k
        /\ k <= Cardinality({i \in 1..Len(data) : data[i] <= x})

\* C13: the median of views reported for a channel is the middle order
\* statistic of an odd number of values and the midpoint of the two middle
\* order statistics of an even number (here in halves: their sum).
C13_MedianIsMidpoint ==
    StatsReported =>
        \A i \in 1..Len(s_result.stats) :
            LET e    == s_result.stats[i]
                data == MapSeq(ValidPosts(EntryChannel(e)), LAMBDA m : m.views[1])
                n    == Len(data)
            IN  n > 0 =>
                    IF n % 2 = 1
                    THEN e.median_views = 2 * KthSmallest(data, (n + 1) \div 2)
                    ELSE e.median_views = KthSmallest(data, n \div 2)
                                              + KthSmallest(data, n \div 2 + 1)

\* An output reports 25 (50 halves) for a channel whose valid posts have the
\* views 10, 20, 30 and 40.
C13_Witness ==
    /\ StatsReported
    /\ \E i \in 1..Len(s_result.stats) :
         LET e    == s_result.stats[i]
             data == MapSeq(ValidPosts(EntryChannel(e)), LAMBDA m : m.views[1])
         IN  /\ Len(data) = 4
             /\ {data[k] : k \in 1..4} = {10, 20, 30, 40}
             /\ e.median_views = 50

\* Subscriber count of an entry of either output (NULL as 0).
EntrySubscribers(e) ==
    IF "subscribers" \in DOMAIN e THEN e.subscribers ELSE OrZero(e.subscriber_count)

\* C14: the entries of calculate_channel_stats and of get_channel_stats are in
\* non-increasing order of subscriber count.
C14_SortedBySubscribers ==
    StatsReported =>
        \A i \in 1..(Len(s_result.stats) - 1) :
            EntrySubscribers(s_result.stats[i])
                >= EntrySubscribers(s_result.stats[i + 1])

\* The pool the ranking was computed from.
Pool == all_messages(s_input.channel_data_list)

\* Position in the pool of the post a ranked entry was made from.
PoolPos(x) ==
    CHOOSE k \in 1..Len(Pool) : Pool[k].channel = x.channel /\ Pool[k].id = x.id

\* A post of the pool that may be ranked: views and engagement_count above 0.
ValidForRanking(msg) ==
    /\ msg.views /= None
    /\ msg.views[1] > 0
    /\ msg.engagement_count > 0

\* C15: every post collect_top_posts returns comes from a pool post whose views
\* and engagement_count are present and above 0, whatever top_n and sort_by.
C15_TopPostsAreValid ==
    s_result.kind = "collect_top_posts" =>
        \A i \in 1..Len(s_result.top) :
            /\ s_result.top[i].views > 0
            /\ s_result.top[i].engagement_count > 0
            /\ \E k \in 1..Len(Pool) :
                 /\ Pool[k].channel = s_result.top[i].channel
                 /\ Pool[k].id = s_result.top[i].id
                 /\ ValidForRanking(Pool[k])

\* The top 2 by engagement_rate of a pool of 5 posts of which 2 were seen but
\* have engagement_count 0.
C15_Witness ==
    /\ s_result.kind = "collect_top_posts"
    /\ s_result.sort_by = "engagement_rate"
    /\ s_result.top_n = 2
    /\ Len(s_result.top) = 2
    /\ Len(Pool) = 5
    /\ Cardinality({k \in 1..Len(Pool) :
                       OrZero(Pool[k].views) > 0 /\ Pool[k].engagement_count = 0}) = 2
    /\ Cardinality({k \in 1..Len(Pool) : ValidForRanking(Pool[k])}) = 3

\* C16: collect_top_posts returns min(top_n, number of valid posts) posts in
\* non-increasing order of the metric; no valid post left out beats a returned
\* one; posts with equal metric keep the order of the pool, and a post left out
\* with the metric of a returned one comes later in the pool.
C16_TopPostsSortedStable ==
    s_result.kind = "collect_top_posts" =>
        LET top     == s_result.top
            key     == s_result.sort_by
            valid   == {k \in 1..Len(Pool) : ValidForRanking(Pool[k])}
            chosen  == {PoolPos(top[i]) : i \in 1..Len(top)}
            Value(k) == IF key = "views" THEN Pool[k].views[1] ELSE Pool[k][key]
        IN  /\ Len(top) = IF s_result.top_n < Cardinality(valid)
                          THEN s_result.top_n ELSE Cardinality(valid)
            /\ Cardinality(chosen) = Len(top)
            /\ chosen \subseteq valid
            /\ \A i \in 1..Len(top) : top[i][key] = Value(PoolPos(top[i]))
            /\ \A i, j \in 1..Len(top) :
                 i < j => /\ top[i][key] >= top[j][key]
                          /\ top[i][key] = top[j][key]
                                 => PoolPos(top[i]) < PoolPos(top[j])
            /\ \A k \in valid \ chosen : \A i \in 1..Len(top) :
                 /\ Value(k) <= top[i][key]
                 /\ Value(k) = top[i][key] => PoolPos(top[i]) < k

\* Two posts with the same engagement_rate were returned, and a third one with
\* that rate was cut off.
C16_Witness ==
    /\ s_result.kind = "collect_top_posts"
    /\ s_result.sort_by = "engagement_rate"
    /\ Len(s_result.top) = 2
    /\ s_result.top[1].engagement_rate = s_result.top[2].engagement_rate
    /\ s_result.top[1].views /= s_result.top[2].views
    /\ \E k \in 1..Len(Pool) :
         /\ ValidForRanking(Pool[k])
         /\ k \notin {PoolPos(s_result.top[1]), PoolPos(s_result.top[2])}
         /\ Pool[k].engagement_rate = s_result.top[1].engagement_rate

(***************************************************************************)
(* The channel endpoints of main.py.  Each request runs in a session of    *)
(* its own and is taken as one step.                                       *)
(***************************************************************************)
\* Number of requests to the channel endpoints that are followed.
MaxAdmin == 2

\* Everything of a scrape run but the tables.
run_state ==
    <<now, pc, channels, idx, batch, messages_scraped, messages_updated, session,
      total_scraped, total_updated, errors, result, summary, start_rows,
      start_channel, scrape_request>>

\* The request just served (endpoint, path or body id, body) and its HTTP status.
Respond(op, id, body, status) ==
    a_result' = [seq |-> a_result.seq + 1, op |-> op, id |-> id, body |-> body,
                 status |-> status]

\* select(TelegramChannel).where(TelegramChannel.channel_id == channel_id)
ByExternalId(channel_id) == {ch \in telegram_channels : ch.channel_id = channel_id}

\* A slip: the row is removed, as hard_delete_channel does.
delete_channel_removes_row(channel_id) ==
    /\ a_result.seq < MaxAdmin
    /\ IF ~ChannelExists(channel_id)
       THEN /\ Respond("delete_channel", channel_id, <<>>, 404)
            /\ UNCHANGED tables
       ELSE /\ telegram_channels' = {ch \in telegram_channels : ch.id /= channel_id}
            /\ telegram_messages' = telegram_messages \ RowsOf(channel_id)
            /\ Respond("delete_channel", channel_id, <<>>, 200)
            /\ UNCHANGED <<next_id, next_channel_pk>>
    /\ UNCHANGED <<run_state, metric_vars, stats_vars>>

\* DELETE /channels/{channel_id}: 404 for an unknown id, else is_active = False
\* and updated_at = now.
delete_channel(channel_id) ==
    /\ a_result.seq < MaxAdmin
    /\ IF ~ChannelExists(channel_id)
       THEN /\ Respond("delete_channel", channel_id, <<>>, 404)
            /\ UNCHANGED tables
       ELSE /\ telegram_channels' =
                   {IF ch.id = channel_id
                    THEN [ch EXCEPT !.is_active = FALSE, !.updated_at = now]
                    ELSE ch : ch \in telegram_channels}
            /\ Respond("delete_channel", channel_id, <<>>, 200)
            /\ UNCHANGED <<telegram_messages, next_id, next_channel_pk>>
    /\ UNCHANGED <<run_state, metric_vars, stats_vars>>

\* A slip: the relationship without cascade and no ON DELETE on the foreign key
\* in a database that does not enforce it: the posts stay behind.
hard_delete_channel_no_cascade(channel_id) ==
    /\ a_result.seq < MaxAdmin
    /\ IF ~ChannelExists(channel_id)
       THEN /\ Respond("hard_delete_channel", channel_id, <<>>, 404)
            /\ UNCHANGED tables
       ELSE /\ telegram_channels' = {ch \in telegram_channels : ch.id /= channel_id}
            /\ Respond("hard_delete_channel", channel_id, <<>>, 204)
            /\ UNCHANGED <<telegram_messages, next_id, next_channel_pk>>
    /\ UNCHANGED <<run_state, metric_vars, stats_vars>>

\* DELETE /channels/{channel_id}/hard: 404 for an unknown id, else db.delete,
\* which loads channel.messages and deletes them with the channel
\* (cascade="all, delete-orphan"), and commit.
hard_delete_channel(channel_id) ==
    /\ a_result.seq < MaxAdmin
    /\ IF ~ChannelExists(channel_id)
       THEN /\ Respond("hard_delete_channel", channel_id, <<>>, 404)
            /\ UNCHANGED tables
       ELSE /\ telegram_channels' = {ch \in telegram_channels : ch.id /= channel_id}
            /\ telegram_messages' = telegram_messages \ RowsOf(channel_id)
            /\ Respond("hard_delete_channel", channel_id, <<>>, 204)
            /\ UNCHANGED <<next_id, next_channel_pk>>
    /\ UNCHANGED <<run_state, metric_vars, stats_vars>>

\* Telegram ids a request can name: those of the seeded channels, one that
\* import_subscriptions produces, and one more.
ExternalIds == {ExternalId(1), ExternalId(2), 0 - 1001, 7}

\* ChannelCreate bodies (title, username and notes are left out).
ChannelCreates == [channel_id : ExternalIds, is_active : BOOLEAN]

\* update_data = channel_update.model_dump(exclude_unset=True): the fields the
\* request body names, an explicit null included.
UpdateDatas ==
    {<<>>}
        \cup {[is_active |-> v] : v \in {None, Some(TRUE), Some(FALSE)}}
        \cup {[channel_id |-> v] : v \in {None} \cup {Some(x) : x \in ExternalIds}}

\* A slip: the check for an existing channel_id is left out and the column is
\* not unique.
create_channel_unchecked(channel) ==
    /\ a_result.seq < MaxAdmin
    /\ telegram_channels' = telegram_channels \cup
           {[id |-> next_channel_pk, channel_id |-> channel.channel_id,
             is_active |-> channel.is_active, updated_at |-> now,
             last_scraped_at |-> None, subscriber_count |-> None]}
    /\ next_channel_pk' = next_channel_pk + 1
    /\ Respond("create_channel", channel.channel_id, channel, 201)
    /\ UNCHANGED <<telegram_messages, next_id, run_state, metric_vars, stats_vars>>

\* POST /channels: 400 when a channel with this channel_id exists, else the
\* INSERT of the new row.
create_channel(channel) ==
    /\ a_result.seq < MaxAdmin
    /\ IF ByExternalId(channel.channel_id) /= {}
       THEN /\ Respond("create_channel", channel.channel_id, channel, 400)
            /\ UNCHANGED tables
       ELSE /\ telegram_channels' = telegram_channels \cup
                   {[id |-> next_channel_pk, channel_id |-> channel.channel_id,
                     is_active |-> channel.is_active, updated_at |-> now,
                     last_scraped_at |-> None, subscriber_count |-> None]}
            /\ next_channel_pk' = next_channel_pk + 1
            /\ Respond("create_channel", channel.channel_id, channel, 201)
            /\ UNCHANGED <<telegram_messages, next_id>>
    /\ UNCHANGED <<run_state, metric_vars, stats_vars>>

\* `for field, value in update_data.items(): setattr(db_channel, field, value)`
Updated(db_channel, update_data) ==
    [f \in DOMAIN db_channel |->
         IF f \in DOMAIN update_data /\ update_data[f] /= None
         THEN update_data[f][1]
         ELSE db_channel[f]]

\* PATCH /channels/{channel_id}: 404 for an unknown id; 400 when the body names
\* a channel_id other than the channel's own that another row has; an explicit
\* null for a NOT NULL column fails in the commit (500); else the UPDATE.
update_channel(channel_id, update_data) ==
    /\ a_result.seq < MaxAdmin
    /\ IF ~ChannelExists(channel_id)
       THEN /\ Respond("update_channel", channel_id, update_data, 404)
            /\ UNCHANGED tables
       ELSE LET db_channel == ChannelRow(channel_id)
                repoint    == /\ "channel_id" \in DOMAIN update_data
                              /\ update_data.channel_id /= Some(db_channel.channel_id)
                existing   == IF repoint
                              THEN {ch \in telegram_channels :
                                        Some(ch.channel_id) = update_data.channel_id}
                              ELSE {}
            IN  IF existing /= {}
                THEN /\ Respond("update_channel", channel_id, update_data, 400)
                     /\ UNCHANGED tables
                ELSE IF \E f \in DOMAIN update_data : update_data[f] = None
                     THEN /\ Respond("update_channel", channel_id, update_data, 500)
                          /\ UNCHANGED tables
                     ELSE /\ telegram_channels' =
                                 (telegram_channels \ {db_channel}) \cup
                                     {[Updated(db_channel, update_data)
                                           EXCEPT !.updated_at = now]}
                          /\ Respond("update_channel", channel_id, update_data, 200)
                          /\ UNCHANGED <<telegram_messages, next_id, next_channel_pk>>
    /\ UNCHANGED <<run_state, metric_vars, stats_vars>>

\* Ids of the channel entities Telegram lists (positive, one digit here).
EntityIds == {1, 2}

\* `int(f"-100{channel_id}")` for an id whose text does not start with -100:
\* the digits of a one-digit id behind -100.
ImportId(entity_id) ==
    IF entity_id < 0 /\ (0 - entity_id) \div 10 = 100
    THEN entity_id
    ELSE 0 - (1000 + entity_id)

\* What iter_dialogs can list: the subscribed channels, each once, in any order.
Discoveries == UNION {Orders(S) : S \in SUBSET EntityIds}

\* A slip: the lookup is made by the entity id as Telegram gives it, not by the
\* id that is stored.
RECURSIVE import_loop_raw_lookup(_, _)
import_loop_raw_lookup(discovered, acc) ==
    IF discovered = <<>> THEN acc
    ELSE LET channel_id == ImportId(Head(discovered))
             existing   == {ch \in acc.channels : ch.channel_id = Head(discovered)}
         IN  import_loop_raw_lookup(Tail(discovered),
                 IF existing /= {}
                 THEN [acc EXCEPT !.skipped = @ + 1]
                 ELSE [acc EXCEPT
                          !.channels = @ \cup
                              {[id |-> acc.pk, channel_id |-> channel_id,
                                is_active |-> TRUE, updated_at |-> now,
                                last_scraped_at |-> None, subscriber_count |-> None]},
                          !.pk = @ + 1,
                          !.added = @ + 1])

\* Step 2 of import_subscriptions: for each discovered channel the lookup by
\* channel_id, then skip, or add and commit.
RECURSIVE import_loop(_, _)
import_loop(discovered, acc) ==
    IF discovered = <<>> THEN acc
    ELSE LET channel_id == ImportId(Head(discovered))
             existing   == {ch \in acc.channels : ch.channel_id = channel_id}
         IN  import_loop(Tail(discovered),
                 IF existing /= {}
                 THEN [acc EXCEPT !.skipped = @ + 1]
                 ELSE [acc EXCEPT
                          !.channels = @ \cup
                              {[id |-> acc.pk, channel_id |-> channel_id,
                                is_active |-> TRUE, updated_at |-> now,
                                last_scraped_at |-> None, subscriber_count |-> None]},
                          !.pk = @ + 1,
                          !.added = @ + 1])

\* POST /channels/import-subscriptions for the channels Telegram lists.
import_subscriptions(discovered) ==
    /\ a_result.seq < MaxAdmin
    /\ LET done == import_loop(discovered,
                       [channels |-> telegram_channels, pk |-> next_channel_pk,
                        added |-> 0, skipped |-> 0])
       IN  /\ telegram_channels' = done.channels
           /\ next_channel_pk' = done.pk
           /\ a_result' = [seq |-> a_result.seq + 1, op |-> "import_subscriptions",
                           id |-> 0, body |-> discovered, status |-> 200,
                           added |-> done.added, skipped |-> done.skipped]
    /\ UNCHANGED <<telegram_messages, next_id, run_state, metric_vars, stats_vars>>

(***************************************************************************)
(* Specification of scrape runs with soft deletes, reactivations and hard  *)
(* deletes served in between their steps.                                  *)
(***************************************************************************)
\* PATCH /channels/{id} with {"is_active": true}.
activate_channel(channel_id) == update_channel(channel_id, [is_active |-> Some(TRUE)])

\* The channels the requests name while runs are followed: the first channel
\* and an id that no row has.
AdminTargets == {1, 3}

AdminNext ==
    \/ \E r \in {1} :
         \/ scrape_all_active_channels(r)
         \/ scrape_specific_channels(r)
         \/ BeginChannel(r)
         \/ ProcessMessage(r)
         \/ FetchRaises(r)
         \/ CommitChannel(r)
         \/ CommitIntegrityError(r)
         \/ CommitStale(r)
         \/ ReturnSummary(r)
    \/ \E channel_id \in AdminTargets :
         \/ delete_channel(channel_id)
         \/ activate_channel(channel_id)
         \/ hard_delete_channel(channel_id)

SpecAdmin == Init /\ [][AdminNext]_vars

(***************************************************************************)
(* Specification of the channel endpoints alone.                           *)
(***************************************************************************)
ChannelsNext ==
    \/ \E channel \in ChannelCreates : create_channel(channel)
    \/ \E channel_id \in ChanIds \cup {3}, update_data \in UpdateDatas :
         update_channel(channel_id, update_data)
    \/ \E discovered \in Discoveries : import_subscriptions(discovered)
    \/ \E channel_id \in ChanIds \cup {3} : hard_delete_channel(channel_id)

SpecChannels == Init /\ [][ChannelsNext]_vars

(***************************************************************************)
(* Properties of the channel endpoints.                                    *)
(***************************************************************************)
\* The step serves a request to a channel endpoint.
Served == a_result'.seq /= a_result.seq

\* The step is the successful soft delete of channel c.
SoftDeleted(c) ==
    /\ Served
    /\ a_result'.op = "delete_channel"
    /\ a_result'.id = c
    /\ a_result'.status = 200

\* The step writes posts or last_scraped_at of channel c.
Touches(c) ==
    /\ ChannelExists(c)
    /\ \/ RowsIn(telegram_messages', c) /= RowsOf(c)
       \/ /\ \E ch \in telegram_channels' : ch.id = c
          /\ ChannelRowIn(telegram_channels', c).last_scraped_at
                 /= ChannelRow(c).last_scraped_at

C18_OwnershipAndCascade ==
    [][/\ \A m \in telegram_messages' :
            Cardinality({ch \in telegram_channels' : ch.id = m.channel_id}) = 1
       /\ (Served /\ a_result'.op = "hard_delete_channel") =>
            IF ChannelExists(a_result'.id)
            THEN /\ a_result'.status = 204
                 /\ telegram_channels' = telegram_channels \ {ChannelRow(a_result'.id)}
                 /\ telegram_messages' =
                        {m \in telegram_messages : m.channel_id /= a_result'.id}
            ELSE /\ a_result'.status = 404
                 /\ UNCHANGED tables]_vars

\* Channel 1 has been hard-deleted with the posts it had, while the posts of
\* channel 2 are still stored.
C18_Witness ==
    /\ a_result.op = "hard_delete_channel"
    /\ a_result.id = 1
    /\ a_result.status = 204
    /\ ~ChannelExists(1)
    /\ RowsOf(1) = {}
    /\ RowsOf(2) /= {}
    /\ next_id - 1 > Cardinality(telegram_messages)

\* C19: no two channel rows share a channel_id; a create for an existing
\* channel_id, and an update to a channel_id another row has, answer 400; a 400
\* leaves the tables unchanged; an import that follows an import of the same
\* channels adds none.
C19_ChannelIdUnique ==
    [][/\ \A a, b \in telegram_channels' : a.channel_id = b.channel_id => a = b
       /\ Served =>
            /\ (a_result'.op = "create_channel" /\ ByExternalId(a_result'.id) /= {})
                   => a_result'.status = 400
            /\ (/\ a_result'.op = "update_channel"
                /\ "channel_id" \in DOMAIN a_result'.body
                /\ \E ch \in telegram_channels :
                     /\ ch.id /= a_result'.id
                     /\ ChannelExists(a_result'.id)
                     /\ Some(ch.channel_id) = a_result'.body.channel_id)
                   => a_result'.status = 400
            /\ a_result'.status = 400 => UNCHANGED tables
            /\ (/\ a_result.op = "import_subscriptions"
                /\ a_result'.op = "import_subscriptions"
                /\ {a_result.body[i] : i \in 1..Len(a_result.body)}
                       = {a_result'.body[i] : i \in 1..Len(a_result'.body)})
                   => /\ a_result'.added = 0
                      /\ telegram_channels' = telegram_channels]_vars

\* The second of two imports of the same two channels has skipped both.
C19_Witness ==
    /\ a_result.seq = 2
    /\ a_result.op = "import_subscriptions"
    /\ Len(a_result.body) = 2
    /\ a_result.added = 0
    /\ a_result.skipped = 2

(***************************************************************************)
(* POST /scrape: what trigger_scrape answers for the outcome of the scrape *)
(* function it awaited.                                                    *)
(***************************************************************************)
\* ScrapeResponse(...) of trigger_scrape (started_at and completed_at are left
\* out): built from the dict the scrape function returned, or by the handler of
\* `except Exception` when it raised.
trigger_scrape(outcome) ==
    IF outcome.kind = "returned"
    THEN [success |-> outcome.success,
          channels_processed |-> outcome.channels_processed,
          total_messages_scraped |-> outcome.total_messages_scraped,
          errors |-> outcome.errors]
    ELSE [success |-> FALSE, channels_processed |-> 0, total_messages_scraped |-> 0,
          errors |-> <<"str(e)">>]

\* C20: the response of POST /scrape carries channels_processed, the number of
\* new posts, the number of updated posts and the errors of the summary the
\* scrape function returned.
C20_ResponseCarriesSummary ==
    \A r \in Sessions :
        (summary[r].kind = "returned" /\ summary[r].total_messages_updated > 0) =>
            LET response == trigger_scrape(summary[r])
            IN  /\ response.channels_processed = summary[r].channels_processed
                /\ response.total_messages_scraped = summary[r].total_messages_scraped
                /\ response.errors = summary[r].errors
                /\ "total_messages_updated" \in DOMAIN response
                /\ response.total_messages_updated = summary[r].total_messages_updated

(***************************************************************************)
(* Specification of scrape runs whose request names a limit.               *)
(***************************************************************************)
RequestNext ==
    \E r \in {1} :
        \/ scrape_with_limit(r)
        \/ BeginChannel(r)
        \/ ProcessMessage(r)
        \/ CommitChannel(r)
        \/ CommitIntegrityError(r)
        \/ ReturnSummary(r)

SpecRequest == Init /\ [][RequestNext]_vars

\* C21: in a run triggered with request limit L, the number of posts fetched
\* and processed for a channel is at most L.
C21_FetchedAtMostRequestLimit ==
    \A r \in Sessions : Len(batch[r]) <= scrape_request[r].limit

(***************************************************************************)
(* Properties of the order of work inside a run.                           *)
(***************************************************************************)
\* The session holds nothing that a commit would write.
NoPending(s) == s.new = <<>> /\ s.dirty = {} /\ s.last_scraped_at = None

\* Channels (primary keys) that have uncommitted writes in session s.
PendingChannels(s) ==
    {s.new[i].channel_id : i \in 1..Len(s.new)} \cup {d.channel_id : d \in s.dirty}

\* C22: within one run channels are processed strictly one after another: the
\* uncommitted writes of a run belong to the one channel whose scrape_channel call
\* is under way, the call of the next channel starts only after the call before it
\* has returned with nothing left uncommitted, and the loop moves forward by one
\* channel exactly when a call ends.
C22_ChannelsOneAfterAnother ==
    [][\A r \in Sessions :
         /\ ~NoPending(session[r]) => pc[r] = "fetch"
         /\ pc[r] = "fetch" => PendingChannels(session[r]) \subseteq {channels[r][idx[r]]}
         /\ (pc[r] = "loop" /\ pc'[r] = "fetch")
            => /\ NoPending(session[r])
               /\ idx'[r] = idx[r]
               /\ idx[r] > 1 => result[r].kind = "returned"
               /\ batch'[r] = <<>>
         /\ (pc[r] = "fetch" /\ pc'[r] /= "fetch") => NoPending(session'[r])
         /\ (pc[r] /= "idle" /\ idx'[r] /= idx[r])
            => /\ pc[r] = "fetch"
               /\ pc'[r] = "loop"
               /\ idx'[r] = idx[r] + 1
               /\ result'[r].kind = "returned"
      ]_vars

\* The second channel of a run has an uncommitted insert while the rows of the
\* first channel, inserted by this run, are committed.
C22_Witness ==
    /\ pc[1] = "fetch"
    /\ idx[1] = 2
    /\ session[1].new /= <<>>
    /\ PendingChannels(session[1]) = {channels[1][2]}
    /\ \E m \in RowsOf(channels[1][1]) : m.created_at = now

\* The run of r has finished a channel and has another one to go.
BetweenChannels(r) == pc[r] = "loop" /\ 1 < idx[r] /\ idx[r] <= Len(channels[r])

\* C23: between finishing one channel and starting the fetch of the next one, a
\* delay step always occurs: the run never goes from the end of one
\* scrape_channel call straight into the next call.
C23_DelayBetweenChannels ==
    [][\A r \in Sessions :
         (BetweenChannels(r) /\ pc'[r] /= pc[r]) => pc'[r] = "delay"]_vars

(***************************************************************************)
(* Specification of two requests served at the same time: each handler has *)
(* its own session, both runs scrape the one active channel, and their     *)
(* awaits interleave freely.                                               *)
(***************************************************************************)
RaceInit ==
    /\ Init
    /\ \A ch \in telegram_channels : ch.is_active <=> ch.id = 1

\* The requests that race: one POST /scrape per session.
scrape_once(r) ==
    /\ now < Cardinality(Sessions)
    /\ scrape_all_active_channels(r)

RaceNext ==
    \E r \in Sessions :
        \/ scrape_once(r)
        \/ BeginChannel(r)
        \/ ProcessMessage(r)
        \/ CommitChannel(r)
        \/ CommitIntegrityError(r)
        \/ ReturnSummary(r)

SpecRace == RaceInit /\ [][RaceNext]_vars

\* The keys (channel, message id) session s is about to insert.
PendingKeys(s) == {<<s.new[i].channel_id, s.new[i].message_id>> : i \in 1..Len(s.new)}

\* The keys of the committed rows.
StoredKeys(messages) == {<<m.channel_id, m.message_id>> : m \in messages}

\* Session s has a pending insert whose key has been committed since its lookup.
LostRace(s) == PendingKeys(s) \cap StoredKeys(telegram_messages) /= {}

\* C25: when two runs process the same channel concurrently and both find the
\* same message id absent, at most one of the two inserts is committed: a commit
\* inserts only keys that no committed row has, the run whose pending insert has
\* lost the race fails on the unique constraint at its commit, which writes
\* nothing, and under every interleaving the store never holds two rows for the
\* same key.
C25_ConcurrentInsertOnce ==
    [][\A r \in Sessions :
         /\ (pc[r] = "fetch" /\ JustCommitted(r)')
            => /\ PendingKeys(session[r]) \cap StoredKeys(telegram_messages) = {}
               /\ StoredKeys(telegram_messages') =
                      StoredKeys(telegram_messages) \cup PendingKeys(session[r])
         /\ (pc[r] = "fetch" /\ LostRace(session[r]) /\ pc'[r] /= "fetch")
            => /\ result'[r].kind = "raised"
               /\ result'[r].error = "IntegrityError"
               /\ telegram_messages' = telegram_messages
         /\ Cardinality(StoredKeys(telegram_messages')) = Cardinality(telegram_messages')
      ]_vars

\* Both runs found the same message of the channel absent and hold an insert for
\* it; the first has committed its insert, the second has its own still pending
\* and cannot commit it.
C25_Witness ==
    /\ result[1].kind = "returned"
    /\ result[1].success
    /\ result[1].messages_scraped = 1
    /\ start_rows[1] = {}
    /\ pc[2] = "fetch"
    /\ start_rows[2] = {}
    /\ Len(session[2].new) = 1
    /\ PendingKeys(session[2]) = StoredKeys(telegram_messages)
    /\ ~UniqueOk(FlushRows(session[2]))

\* C24: when an insert fails with a duplicate-key violation on (channel, message
\* id), the upsert recovers through the update path: the scrape_channel call
\* still returns success and the run goes on.
C24_DuplicateKeyRecovered ==
    \A r \in Sessions :
        result[r].error = "IntegrityError"
        => /\ result[r].kind = "returned"
           /\ result[r].success
           /\ summary[r].kind /= "raised"

(***************************************************************************)
(* Properties of last_scraped_at, of the order of the inserts and of the   *)
(* counts.                                                                 *)
(***************************************************************************)
\* telegram_channels.last_scraped_at of channel c in the table chans.
LastScrapedAt(chans, c) == ChannelRowIn(chans, c).last_scraped_at

\* C26: a channel's last_scraped_at is set to the current time only by the commit
\* that ends a scrape_channel call of that channel, after the whole fetched batch
\* has been processed and in the same commit as the batch; a failed call leaves
\* it as it was, and it never decreases and never goes back to NULL.
C26_LastScrapedAtWithBatch ==
    [][\A c \in ChanIds :
         /\ LastScrapedAt(telegram_channels', c) /= LastScrapedAt(telegram_channels, c)
            => \E r \in Sessions :
                   /\ pc[r] = "fetch"
                   /\ channels[r][idx[r]] = c
                   /\ JustCommitted(r)'
                   /\ LastScrapedAt(telegram_channels', c) = Some(now)
                   /\ messages_scraped[r] + messages_updated[r] = Len(batch[r])
                   /\ \A i \in 1..Len(batch[r]) :
                          \E row \in RowsIn(telegram_messages', c) :
                              /\ row.message_id = batch[r][i].id
                              /\ MetricFields(row) =
                                     Metrics(LastWithId(batch[r], batch[r][i].id))
         /\ \A r \in Sessions :
                (/\ pc[r] = "fetch"
                 /\ channels[r][idx[r]] = c
                 /\ pc'[r] /= "fetch"
                 /\ ~result'[r].success)
                => LastScrapedAt(telegram_channels', c) = LastScrapedAt(telegram_channels, c)
         /\ LastScrapedAt(telegram_channels, c) /= None
            => /\ LastScrapedAt(telegram_channels', c) /= None
               /\ LastScrapedAt(telegram_channels', c)[1]
                      >= LastScrapedAt(telegram_channels, c)[1]
      ]_vars

\* A channel scraped in the first run was scraped again in the second: its
\* last_scraped_at went from the time of the first run to the time of the second.
C26_Witness ==
    /\ JustCommitted(1)
    /\ start_channel[1] /= None
    /\ start_channel[1][1].last_scraped_at = Some(1)
    /\ LastScrapedAt(telegram_channels, CallChannel(1)) = Some(2)
    /\ Len(batch[1]) = 2

\* The batch came newest first: Telegram message ids grow with time.
NewestFirst(b) == \A i, j \in 1..Len(b) : i < j => b[i].id > b[j].id

\* The rows of channel c that the last call of r inserted.
InsertedBy(r, c) == {m \in RowsOf(c) : \A old \in start_rows[r] : old.id /= m.id}

\* C27: posts fetched newest first are put into chronological order before they
\* are persisted: the new rows of a scrape_channel call are added oldest first, so
\* that among them an older post has the smaller serial id.
C27_InsertedOldestFirst ==
    \A r \in Sessions :
        (JustCommitted(r) /\ NewestFirst(batch[r]))
        => \A a, b \in InsertedBy(r, CallChannel(r)) :
               a.message_id < b.message_id => a.id < b.id

\* The number of messages of batch b whose key was stored in rows.
StoredCount(b, rows) ==
    Cardinality({i \in 1..Len(b) : \E row \in rows : row.message_id = b[i].id})

\* A scrape_channel call of r ends in this step.
CallEnds(r) == pc[r] = "fetch" /\ pc'[r] /= "fetch"

\* C28: a successful scrape_channel call reports new + updated = number of posts
\* fetched, new = number of rows added, updated = number of fetched posts whose
\* key was stored; a failed call reports 0 and 0; the run totals start at 0, grow
\* by the counts of each successful call and by nothing else, and are what the
\* summary carries, while channels_processed is the number of selected channels,
\* failed ones included.
C28_CountsAddUp ==
    [][\A r \in Sessions :
         /\ (CallEnds(r) /\ result'[r].success)
            => LET c == channels[r][idx[r]]
               IN  /\ result'[r].messages_scraped + result'[r].messages_updated
                          = Len(batch[r])
                   /\ result'[r].messages_scraped =
                          Cardinality(RowsIn(telegram_messages', c))
                              - Cardinality(RowsOf(c))
                   /\ result'[r].messages_updated = StoredCount(batch[r], RowsOf(c))
                   /\ total_scraped'[r] = total_scraped[r] + result'[r].messages_scraped
                   /\ total_updated'[r] = total_updated[r] + result'[r].messages_updated
         /\ (CallEnds(r) /\ ~result'[r].success)
            => /\ result'[r].messages_scraped = 0
               /\ result'[r].messages_updated = 0
               /\ total_scraped'[r] = total_scraped[r]
               /\ total_updated'[r] = total_updated[r]
         /\ (pc[r] = "idle" /\ pc'[r] = "loop")
            => total_scraped'[r] = 0 /\ total_updated'[r] = 0
         /\ (pc[r] /= "idle" /\ ~CallEnds(r))
            => total_scraped'[r] = total_scraped[r] /\ total_updated'[r] = total_updated[r]
         /\ (pc[r] = "loop" /\ pc'[r] = "idle")
            => /\ summary'[r].kind = "returned"
               /\ summary'[r].total_messages_scraped = total_scraped[r]
               /\ summary'[r].total_messages_updated = total_updated[r]
               /\ summary'[r].channels_processed = Len(channels[r])
               /\ Len(summary'[r].errors) <= Len(channels[r])
      ]_vars

\* A run over two channels has returned: the first gave one new post, the second
\* failed, and both are counted as processed.
C28_Witness ==
    /\ summary[1].kind = "returned"
    /\ summary[1].channels_processed = 2
    /\ Len(summary[1].errors) = 1
    /\ summary[1].total_messages_scraped = 1
    /\ ~result[1].success
    /\ result[1].messages_scraped = 0

\* Session s holds two pending inserts with the same key.
DuplicatePending(s) ==
    \E i, j \in 1..Len(s.new) :
        /\ i < j
        /\ s.new[i].channel_id = s.new[j].channel_id
        /\ s.new[i].message_id = s.new[j].message_id

\* C29: when the batch of a channel holds a message id twice and the id is not
\* stored, the second lookup does not see the pending first insert and the
\* message is added as a new row again; the commit then cannot succeed, and when
\* the call ends nothing of the batch is stored, the channel row is as before, the
\* store holds no duplicate and the request answers with success false and an
\* error.
C29_DuplicateInBatchFailsWhole ==
    [][\A r \in Sessions :
         /\ (/\ pc[r] = "fetch"
             /\ Len(batch'[r]) = Len(batch[r]) + 1
             /\ Lookup(channels[r][idx[r]], batch'[r][Len(batch'[r])].id) = {})
            => /\ session'[r].new =
                      Append(session[r].new,
                             NewMessage(channels[r][idx[r]], batch'[r][Len(batch'[r])]))
               /\ messages_scraped'[r] = messages_scraped[r] + 1
               /\ messages_updated'[r] = messages_updated[r]
         /\ (pc[r] = "fetch" /\ DuplicatePending(session[r]))
            => /\ ~UniqueOk(FlushRows(session[r]))
               /\ pc'[r] /= "fetch"
                  => /\ ~result'[r].success
                     /\ telegram_messages' = telegram_messages
                     /\ telegram_channels' = telegram_channels
                     /\ NoPending(session'[r])
                     /\ ~trigger_scrape(summary'[r]).success
                     /\ trigger_scrape(summary'[r]).errors /= <<>>
         /\ Cardinality(StoredKeys(telegram_messages')) = Cardinality(telegram_messages')
      ]_vars

\* The commit of a batch that held a new message id twice was refused: the
\* channel had no rows before the call and has none after it.
C29_Witness ==
    /\ result[1].kind = "raised"
    /\ result[1].error = "IntegrityError"
    /\ start_rows[1] = {}
    /\ RowsOf(CallChannel(1)) = {}
    /\ ~trigger_scrape(summary[1]).success

(***************************************************************************)
(* The two copies of the metric functions.                                 *)
(***************************************************************************)
\* What scrape_channel computes with the scraper.py copies.
ScraperCopy(message) ==
    LET total_reactions == scraper_get_total_reactions(message.reactions)
    IN  [total_reactions |-> total_reactions,
         engagement      |-> calculate_engagement(message, total_reactions)]

\* What export_channel computes with the parser.py copies.
ParserCopy(message) ==
    LET total_reactions == parser_get_total_reactions(message.reactions)
    IN  [total_reactions |-> total_reactions,
         engagement      |-> parser_calculate_engagement(message, total_reactions)]

\* C30: the two copies of the metric functions are equivalent: whichever copy was
\* applied to a message, the other copy gives the same free total, the same
\* engagement_count and the same engagement_rate for it.
C30_CopiesAgree ==
    /\ m_result.kind = "scraper"
       => /\ m_result.total_reactions = ParserCopy(m_message).total_reactions
          /\ m_result.engagement_count = ParserCopy(m_message).engagement.engagement_count
          /\ m_result.engagement_rate = ParserCopy(m_message).engagement.engagement_rate
    /\ m_result.kind = "parser"
       => /\ m_result.total_reactions = ScraperCopy(m_message).total_reactions
          /\ m_result.engagement_count = ScraperCopy(m_message).engagement.engagement_count
          /\ m_result.engagement_rate = ScraperCopy(m_message).engagement.engagement_rate

\* The parser copy was applied to a message with a free and a custom-emoji
\* reaction, forwards, replies and views.
C30_Witness ==
    /\ m_result.kind = "parser"
    /\ m_message.reactions /= None
    /\ \E i, j \in 1..Len(m_message.reactions[1]) :
           /\ m_message.reactions[1][i].reaction = "ReactionEmoji"
           /\ m_message.reactions[1][i].count = Some(20)
           /\ m_message.reactions[1][j].reaction = "ReactionCustomEmoji"
           /\ m_message.reactions[1][j].count = Some(50)
    /\ m_message.views = Some(3)
    /\ m_message.forwards = Some(5)
    /\ m_message.replies = Some(3)
    /\ m_result.total_reactions = 20
    /\ m_result.engagement_count = 28
    /\ m_result.engagement_rate = ScraperCopy(m_message).engagement.engagement_rate
    /\ m_result.engagement_rate > 0

====
